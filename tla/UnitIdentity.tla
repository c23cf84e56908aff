---------------------------- MODULE UnitIdentity ----------------------------
(***************************************************************************)
(* What the certificate machinery of a unit promises, without its databags,*)
(* secrets, events and requests: the unit identifies itself with nothing,  *)
(* with a key it has signed itself, or with a certificate its provider     *)
(* offered for a request it made; the certificate comes with the key it    *)
(* was asked for with; and only the end of the relation takes it away.     *)
(*                                                                         *)
(* Certificates implements this specification.                             *)
(***************************************************************************)
CONSTANTS
    Key,       \* private keys
    Nothing,   \* no certificate
    SelfSigned,  \* the unit's own signature
    Cert,      \* certificates of providers
    KeyOf(_),  \* the key a certificate was asked for with
    Usable(_)  \* certificates that are what was asked for

VARIABLES
    related,   \* whether the unit is related to a provider
    offered,   \* certificates on offer to the unit, or still in its hands
    key, identity

vars == <<related, offered, key, identity>>

Init == related = FALSE /\ offered = {} /\ key \notin Key /\ identity = Nothing

Relate == ~related /\ related' = TRUE /\ UNCHANGED <<offered, key, identity>>

\* A provider that is related issues and withdraws.
Issue ==
    /\ related /\ offered' \subseteq Cert
    /\ UNCHANGED <<related, key, identity>>

SelfSign ==
    /\ identity = Nothing /\ identity' = SelfSigned /\ key' \in Key
    /\ offered' \subseteq offered /\ UNCHANGED related

TakeOver(c) ==
    /\ Usable(c) /\ identity' = c /\ key' = KeyOf(c)
    /\ offered' \subseteq offered /\ UNCHANGED related

\* The relation ends, and what came from it; what the unit still had to take
\* over may come first or stay in its hands.
Unrelate ==
    /\ related /\ ~related'
    /\ offered' \subseteq offered
    /\ identity' \in {Nothing, SelfSigned}
    /\ key' = key \/ key' \in Key

Next ==
    \/ Relate \/ Issue \/ SelfSign \/ Unrelate
    \/ \E c \in offered : TakeOver(c)
    \* events are handled to no effect
    \/ offered' \subseteq offered /\ UNCHANGED <<related, key, identity>>

Spec == Init /\ [][Next]_vars

=============================================================================
