-------------------------- MODULE MCTrustNamespace --------------------------
(* Instance of TrustNamespace for TLC. *)
EXTENDS TrustNamespace

Pem(id) == <<[type |-> "CERTIFICATE", headers |-> FALSE, parse |-> "ok", known |-> FALSE,
              cert |-> [id |-> id, expired |-> FALSE, ca |-> TRUE]]>>
TwoDatas == {Pem(1), Pem(2)}

AppLabel == [domain |-> "", name |-> "app", valid |-> TRUE]
UserObject(name) ==
    [kind |-> "configMap", name |-> name, labels |-> {AppLabel}, tls |-> FALSE,
     data |-> [mine |-> Pem(1)], binaryData |-> <<>>]
Bundle(source, template) ==
    [name |-> "b", annotations |-> <<>>, status |-> <<>>,
     spec |-> [sources |-> <<[configMap |-> source]>>, target |-> [configMap |-> template]]]

Template == [key |-> "ca", metadata |-> [labels |-> {AppLabel}, annotations |-> {}]]
Selector == [valid |-> TRUE, labels |-> {AppLabel}]

\* By name with the target's key and with all keys, and by a label of the template.
NamespaceInputs ==
    {[bundle |-> Bundle(s, Template), objs |-> {UserObject("b")}, pkg |-> [given |-> FALSE]] :
        s \in {[name |-> "b", key |-> "ca"], [name |-> "b", key |-> "mine"],
               [name |-> "b", includeAllKeys |-> TRUE],
               [selector |-> Selector, includeAllKeys |-> TRUE]}}
=============================================================================
