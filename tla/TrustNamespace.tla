--------------------------- MODULE TrustNamespace ---------------------------
(***************************************************************************)
(* The trust namespace, which the sources of a Bundle are read from and     *)
(* which is, unless the selector leaves it out, also one of the namespaces  *)
(* that the Bundle's targets are written to.  A target has the name of the  *)
(* Bundle and the labels of the template, and it is an object of the source *)
(* cache like any other.                                                    *)
(*                                                                          *)
(* A reconcile builds the bundle (BundleSource) and writes it under the     *)
(* target's key.  Objects change between reconciles only: the interleaving  *)
(* of reads and changes is the subject of BundleController.                 *)
(***************************************************************************)
EXTENDS BundleSource, FiniteSetsExt

CONSTANTS
    Datas,      \* what users write into entries of their objects
    MaxEdits    \* bound on the changes that users make

VARIABLE edits  \* changes made so far

allVars == <<vars, edits>>

Target == in.bundle.spec.target
TargetLabels(kind) ==
    IF Has(Target[kind], "metadata") THEN Target[kind].metadata.labels ELSE {}

\* The entry of an object that the controller writes.
IsTargetEntry(o, e) ==
    /\ o.kind \in DOMAIN Target /\ o.name = in.bundle.name
    /\ e = <<"data", Target[o.kind].key>>

-----------------------------------------------------------------------------
PEMOf(certs) ==
    SetToSeq({[type |-> "CERTIFICATE", headers |-> FALSE, parse |-> "ok",
               known |-> FALSE, cert |-> c] : c \in certs})

\* The object with the bundle applied: another client's entries stay.
Published(kind, o) ==
    [o EXCEPT !.labels = @ \cup TargetLabels(kind),
              !.data = Field(Target[kind].key, PEMOf(pool)) ++ @]

NewObject(kind) ==
    [kind |-> kind, name |-> in.bundle.name, labels |-> {}, tls |-> FALSE,
     data |-> <<>>, binaryData |-> <<>>]

TNInit == Init /\ edits = 0

\* BuildBundle, one step.
Build == Next /\ UNCHANGED edits

\* ApplyTarget for the trust namespace; the status follows, and the Bundle is at
\* rest.
Publish ==
    /\ pc = "done" /\ result = "ok"
    /\ in' = [in EXCEPT !.objs =
                {o \in @ : ~(o.kind \in DOMAIN Target /\ o.name = in.bundle.name)}
                \cup {LET old == Get(k, in.bundle.name)
                      IN Published(k, IF old = {} THEN NewObject(k) ELSE CHOOSE o \in old : TRUE) :
                        k \in {"configMap", "secret"} \cap DOMAIN Target}]
    /\ pc' = "rest"
    /\ UNCHANGED <<i, reading, pool, caID, result, edits>>

\* A user writes an entry of an own object; the event makes the controller
\* reconcile the Bundle.
EditSource ==
    /\ pc = "rest" \/ (pc = "done" /\ result \in {"NotFound", "InvalidPEM"})
    /\ edits < MaxEdits
    /\ edits' = edits + 1
    /\ \E o \in in.objs : \E e \in AllEntries(o) : \E d \in Datas :
        /\ ~IsTargetEntry(o, e) /\ e[1] = "data"
        /\ in' = [in EXCEPT !.objs = (@ \ {o}) \cup {[o EXCEPT !.data[e[2]] = d]}]
    /\ pc' = "source" /\ i' = 1 /\ pool' = {} /\ caID' = FALSE /\ result' = "none"
    /\ todo' = {} /\ obj' = NoObject /\ entries' = {} /\ blocks' = <<>>

TNNext == Build \/ Publish \/ EditSource

TNSpec == TNInit /\ [][TNNext]_allVars

-----------------------------------------------------------------------------
\* What users have put into the trust namespace and into the Bundle.
UserCerts ==
    UNION {CertsIn(Content(o, e)) : <<o, e>> \in
             {x \in UNION {{o} \X AllEntries(o) : o \in in.objs} : ~IsTargetEntry(x[1], x[2])}}
    \cup UNION {CertsIn(s.inLine.blocks) : s \in {x \in Range(Sources) : Has(x, "inLine")}}
    \cup (IF in.pkg.given THEN CertsIn(in.pkg.data) ELSE {})

\* A bundle holds nothing but what users provide at the time: an admitted Bundle
\* has no source that is its own target, so a certificate that is removed from
\* the sources does not come back from there.
NoSelfFeeding == result = "ok" => pool \subseteq UserCerts
=============================================================================
