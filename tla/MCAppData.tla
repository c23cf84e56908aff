----------------------------- MODULE MCAppData -----------------------------
(* Two units; worlds at deployment for the model checker. *)
EXTENDS AppData

MCUnits    == {"u1", "u2"}
MCConfigs  == {"r1", "r2"}
MCNoConfig == "no_config"
MCIngress  == "ingress"
MCNoUrl    == "no_url"
MCUserPws  == {101, 102}
MCFirst    == {"u1"}

\* Nothing is related.
Bare == [cfg |-> "r1", route |-> 0, url |-> FALSE,
         oauth |-> 0, issued |-> FALSE, userPw |-> 0]
WithRoute == [Bare EXCEPT !.route = 1]
WithOAuth == [Bare EXCEPT !.oauth = 1]
OnlyRoute    == {WithRoute}
OnlyOAuth    == {WithOAuth}
WithPassword == [Bare EXCEPT !.userPw = 101]
OnlyPassword == {WithPassword}
WithBoth     == [Bare EXCEPT !.route = 1, !.oauth = 1]
PasswordOrBoth == {WithPassword, WithBoth}
=============================================================================
