------------------------------ MODULE DataOps ------------------------------
(***************************************************************************)
(* Class Data of the library data_interfaces: what reading, writing and    *)
(* deleting fields of a relation does to the databags and secrets that a   *)
(* hook sees.  A field is kept in a databag, or with the other fields of   *)
(* its group in one secret; which of the two is decided at each call.      *)
(*                                                                         *)
(* A view v is what the hook sees: v.bag holds each component's databag    *)
(* and v.secret each group's secret, both as functions from the fields     *)
(* that are there to values; a secret without fields does not exist.       *)
(* A record d describes the Data object:                                   *)
(*   component  whose databag it writes          leader  does this unit lead *)
(*   local      its own secret fields            group   the group of a field *)
(*   uri        group -> the databag field that names the group's secret;  *)
(*              empty if secrets are found by their labels alone           *)
(***************************************************************************)
\* f, and g where f has nothing (f @@ g of module TLC).
Over(f, g) == [x \in DOMAIN f \cup DOMAIN g |-> IF x \in DOMAIN f THEN f[x] ELSE g[x]]
Only(f, S) == [x \in DOMAIN f \cap S |-> f[x]]
Drop(f, S) == [x \in DOMAIN f \ S |-> f[x]]

\* A relation whose secret fields are in the leader's databag stays there.
FallsBack(d, v, known) == d.leader /\ known \cap DOMAIN v.bag[d.component] # {}

\* The fields among those asked for that are first sought in secrets.
AsSecrets(d, v, known, fields) ==
    IF FallsBack(d, v, known) THEN {} ELSE fields \cap known

GroupsOf(d, fields) == {d.group[f] : f \in fields}

\* _fetch_relation_data_with_secrets: owner's fields, those in known from
\* secrets.  A group that holds none of them is sought in the databag.
Fetch(d, v, owner, known, fields) ==
    LET asked    == AsSecrets(d, v, known, fields)
        secret   == {f \in asked : f \in DOMAIN v.secret[d.group[f]]}
        leftover == {f \in asked : d.group[f] \notin GroupsOf(d, secret)}
    IN  Over([f \in secret |-> v.secret[d.group[f]][f]],
             Only(v.bag[owner], (fields \ asked) \cup leftover))

\* _update_relation_data: into the secrets of their groups, which are made and
\* named in the databag if they are not there, or else into the databag.
Update(d, v, data) ==
    LET asked == AsSecrets(d, v, d.local, DOMAIN data)
        named == GroupsOf(d, asked) \cap DOMAIN d.uri
    IN  [v EXCEPT
            !.secret = [g \in DOMAIN @ |->
                           Over(Only(data, {f \in asked : d.group[f] = g}), @[g])],
            !.bag[d.component] =
                Over(Drop(data, asked), Over([f \in {d.uri[g] : g \in named} |-> f], @))]

\* _delete_relation_data.  A secret loses the fields only if it has all of
\* them; a secret that would be empty is removed and so is its name.
Delete(d, v, fields) ==
    LET asked == AsSecrets(d, v, d.local, fields)
        done  == {g \in GroupsOf(d, asked) : fields \subseteq DOMAIN v.secret[g]}
        gone  == {g \in done : fields = DOMAIN v.secret[g]} \cap DOMAIN d.uri
        plain == {f \in fields : f \in asked => d.group[f] \notin done}
    IN  [v EXCEPT
            !.secret = [g \in DOMAIN @ |-> IF g \in done THEN Drop(@[g], fields) ELSE @[g]],
            !.bag[d.component] = Drop(@, plain \cup {d.uri[g] : g \in gone})]
=============================================================================
