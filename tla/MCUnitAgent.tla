---------------------------- MODULE MCUnitAgent ----------------------------
(* Worlds for the model checker: each changes one or two things at a time. *)
EXTENDS UnitAgent

MCCAs       == {"caA", "caB"}
MCNoCA      == "none"
MCProvider  == "caA"
MCSha256    == {"caA", "caB"}
MCData      == {"d1", "d2"}
MCPasswords == 2..20
OperatorPw  == 101

NoClientCA   == [c \in Clients |-> MCNoCA]
KafkaCA(ca)  == [NoClientCA EXCEPT !["kafka-client"] = ca]

\* kafka related without TLS, no ingress, no OAuth CA, no TLS provider
Plain == [data |-> "d1", kafkaTls |-> FALSE, ca |-> NoClientCA,
          ingress |-> FALSE, oauthCas |-> {}, userPw |-> 0, tls |-> FALSE]
\* kafka related with TLS
Secure == [Plain EXCEPT !.kafkaTls = TRUE, !.ca = KafkaCA("caB")]
\* the same, and the unit's certificate comes from the provider
Provided == [Secure EXCEPT !.tls = TRUE]

\* Every input changes in some way; in the last world kafka's CA is the TLS
\* provider's.
NormalWorlds ==
    {Plain, [Plain EXCEPT !.userPw = OperatorPw, !.oauthCas = {"caB"}],
     [Secure EXCEPT !.data = "d2", !.oauthCas = {"caA"}], [Plain EXCEPT !.ingress = TRUE],
     Provided, [Provided EXCEPT !.ca = KafkaCA("caA")]}
\* What hooks that fail may be in the middle of.
FaultWorlds ==
    {Secure, [Provided EXCEPT !.oauthCas = {"caA"}], [Secure EXCEPT !.data = "d2"]}
\* One change of each kind, for liveness; kafka's CA alone is one of them.
LiveWorlds ==
    {Plain, [Secure EXCEPT !.userPw = OperatorPw],
     [Secure EXCEPT !.userPw = OperatorPw, !.ca = KafkaCA("caA")],
     [Provided EXCEPT !.oauthCas = {"caB"}, !.data = "d2"]}
\* A certificate relation and nothing else that restarts the service.
OnlyCertWorlds == {Plain, [Plain EXCEPT !.tls = TRUE]}
OnlyCaWorlds   == {Plain, [Plain EXCEPT !.oauthCas = {"caB"}]}
CertAndCaWorlds ==
    {[Plain EXCEPT !.tls = TRUE], [Plain EXCEPT !.oauthCas = {"caB"}]}
SecretWorlds   == {Plain, [Plain EXCEPT !.userPw = OperatorPw]}
=============================================================================
