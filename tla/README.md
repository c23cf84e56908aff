# Kafka UI operator: TLA+ models and proofs

The Kafka UI operator is a Juju machine charm. One copy of it runs on every
unit of the application; Juju starts it for each event ("hook"), it reads
relations, secrets and options, writes databags and files, restarts a snap
service, and exits. Nothing of it lives between two hooks except what it wrote.
What is hard about it follows from that:

- databags and secrets are a transaction (committed when a hook ends well,
  dropped when it fails), files and the service are not;
- a failed hook is run again from its first line, a deferred handler is called
  again in some later hook, before that hook's own event;
- the units share the application databag, and only the leader may write it,
  and the leadership moves;
- the service reads its files when it starts, so a file that changed matters
  only once the service is restarted, and the charm has to notice.

## 1. Inventory

| component | source | state | operations |
|---|---|---|---|
| charm | `src/src/charm.py` | none of its own | `_on_config_changed` (reconcile everything), `init_app_passwords`, `_on_update_status`, `_on_upgrade_charm`, `_on_install`, `reconcile_routes`, `health_check`, `_on_collect_status` |
| TLS handler | `events/tls.py` | unit databag: certificate, key, store passwords | `init_unit_tls`, `_on_certificate_available`, `_tls_relation_broken`, `_tls_relation_created` |
| TLS manager | `managers/tls.py` | truststore.jks, keystore.p12, PEM files, copy of the JDK's cacerts | `configure`, `remove_stores`, `import_cert`, `remove_cert`, `truststore_changed`, `update_truststore`, `set_oauth_truststore`, `set_truststore_password` |
| OAuth handler | `events/oauth.py` | app databag: client secret, cacerts password | `_on_oauth_relation_changed`/`_broken`, `_on_oauth_ca_changed`/`_removed`, `reconcile_ca_truststore`, `reconcile_client_config` |
| secrets handler | `events/user_secrets.py` | app databag: admin password | `_on_secret_changed`, `load_auth_secret` |
| config manager | `managers/config.py` | application-local.yml, `JAVA_OPTS` | `application_local_config`, `clean_yaml_config`, `config_changed`, `java_opts` |
| workload | `workload.py`, `core/workload.py` | files, `/etc/environment`, snap service | `read`, `write`, `exec`, `set_environment`, `install`, `active`, `restart` |
| context | `core/models.py` | none (views of databags) | `update`, `ready`, `bundle`, `tls_termination`, `route_config`, `status` |
| options | `core/structured_config.py` | none | validators |
| tls_certificates | `lib/.../tls_certificates.py` | requests in the unit's databag, one secret per certificate with its expiry, a secret for the key | `_configure` with its parts, `_on_secret_expired`, relation-broken; the provider's `set_relation_certificate`, `_remove_certificates_for_which_no_csr_exists` |
| data_interfaces | `lib/.../data_interfaces.py` | databags and secrets of the client relations and of the peer relation, the diff in a databag, secrets kept for the length of a hook | `fetch_relation_data`, `update_relation_data`, `delete_relation_data` (class `Data`); requirer and provider handlers |
| haproxy_route | `lib/.../haproxy_route.py` | application and unit databags of the route, HAProxy's endpoint | `provide_haproxy_route_requirements`, `update_relation_data`; HAProxy's checks `check_services_unique`, `check_grpc_requires_https`, `get_data`, `publish_proxied_endpoints` |
| snap | `lib/.../snap.py` | the snap's revision and hold, the daemon, the service | `SnapCache`, `Snap.ensure`, `hold`, `restart`, `services` |

How they interact: the libraries turn relation events into the charm's events;
every handler ends in, or emits, `config_changed`, which the secrets handler
observes first and the charm second; `_on_config_changed` calls the TLS
handler, the OAuth handler, the config manager and the TLS manager in a fixed
order, then writes and restarts. `_on_certificate_available`,
`_tls_relation_broken` and the OAuth CA handlers touch the same stores, and the
latter restart the service on their own. Every hook ends with
`_on_collect_status`. The databags are shared with three kinds of provider, with
HAProxy and with the certificate provider, whose ends of the libraries are
modelled too, as they decide what the charm reads and when.

What makes each part correct:

- *stores*: what is on disk opens with the passwords the databags hold, and
  holds the certificate the databag holds; passwords that protect a file are
  never replaced;
- *reconcile*: when all events are handled, the running service has loaded what
  relations, options and secrets ask for; it is restarted only for a reason;
- *JVM*: the password in the environment opens the truststore it points at;
- *application databag*: only one set of passwords is ever used, rotations and
  client secrets reach every unit, routes are what was last computed;
- *status*: a unit is shown active only when it is, a failed install is told;
- *certificates*: a certificate is used with the key it was asked for with, no
  offer is overlooked, renewal is asked for in time;
- *client data*: credentials are in no databag, are asked for once, never mixed
  of two publications, and reach every unit;
- *peer data*: what is written and read behaves like one dictionary;
- *configuration*: each file is consistent in itself and gives users the rights
  that were configured, behind HAProxy or without it.

The hazards, each at its line with the properties that watch it, are in
`PROJECT.json`.

## 2. Modules

| module | models | uses | proofs |
|---|---|---|---|
| `UnitAgent` (`MCUnitAgent`) | one unit: hooks, handlers, stores, files, service, faults | | `UnitAgentProofs`, `UnitAgentConverge` |
| `AppData` (`MCAppData`) | several units: leadership, application passwords, rotation, oauth client, routes and their cache | | `AppDataProofs` |
| `Certificates` | a unit's certificate: both ends of tls_certificates and `TLSHandler` | implements `UnitIdentity` | `CertificatesProofs` |
| `Health` | install, upgrade, `health_check` with its retries, status of unit and application, snapd | | `HealthProofs` |
| `DataOps` | class `Data` of data_interfaces as operators on databags and secrets | | |
| `ClientData` | a client relation, provider and all units | `DataOps` | `ClientDataProofs` |
| `PeerData` (`MCPeerData`) | the peer relation's data over the library | `DataOps`; implements `SharedDict` | `PeerDataProofs` |
| `ConfigContent` | application-local.yml and what the UI makes of it | | in `RoutesProofs` |
| `Routes` (`MCRoutes`) | the leader, HAProxy, another application, every unit's file | `ConfigContent` | `RoutesProofs` |

`UnitAgent` and `AppData` take the peer relation for what `SharedDict` says; that
`PeerData` implements `SharedDict` justifies it. The certificate that arrives
in `UnitAgent` is the one that `Certificates` takes over, in which `UnitIdentity`
says what may happen to key and certificate. `Health` takes what config-changed
does to the service from `UnitAgent`. `Routes` and `AppData` divide the route:
`AppData` has hooks that die and moves of the lead, `Routes` both ends of the
relation and what users get.

An abstract specification of a desired and an applied configuration, which
`UnitAgent` would implement, was considered and left out: the code applies
changes in an order that depends on the handler, and what remains of such a
specification is `ConfigConverges`. All invariants that passing runs check are
proved, `OfferIsUsed` of `Certificates` for a relation that is never removed.

## 3. UnitAgent

One unit. Its variables are what Juju holds (`world`, `issued`, `leader`,
`pending`; `silent` records that a client's TLS data changed in its secret alone
and that no config-changed has run since), what the charm committed (`app`, `unit`, `deferred`), the hook that
runs (`event`, `buf`, `redo`, `work`, `task`, `pc`, `modified`) and the machine
(`disk`, `service`).

| in the model | in the code |
|---|---|
| `world` | relation data, `system-users` secret and options as a hook reads them; `data` stands for all of application-local.yml that is not a password or a store |
| `app`, `unit` | peer databags with their secrets; `buf` holds a hook's writes until `Commit` |
| `deferred`, `redo` | ops' stored notices; `Dispatch` calls them before the event's handlers |
| `work`, `task`, `pc` | the handlers of the event (`EventTasks`), the one that runs, the place in it |
| `disk.truststore`, `.keystore`, `.cacerts` | the three stores; a store is its password and its contents |
| `disk.env`, `disk.yml` | the password in `JAVA_OPTS`, application-local.yml |
| `service.loaded` | the files as they were when the service last started |

Each handler is a chain of actions, one for each effect outside the databag, so
that `Crash` may come between any two effects: `Reconcile`, `InitUnitTls`,
`SetTruststore`, `SetKeystore`, `Cacerts1`, `CacertsPassword`, `CacertsSync`
(one per keytool call), `Check`, `UpdateTruststore` (one per client),
`SetEnvironment`, `WriteConfig`, `Restart` are `_on_config_changed` in the order
of its lines. `KeytoolFails` is the exception a handler lets go when keytool
cannot open a store; the hook is then in `"failed"` and only `Retry` follows.

Choices, and why they lose nothing the properties ask for:

- The world changes only between hooks or after a failed one. A hook reads
  relation data, secrets and options from one snapshot, so a change during a hook is
  indistinguishable from one right after it. Leadership is not part of the
  snapshot (`is_leader` is asked each time): it may be lost during a hook,
  which counts as a fault because the lease outlasts an ordinary hook.
- A client's TLS data are in a Juju secret. When they change, the hook that the
  unit gets is relation-changed if the databag changed as well, secret-changed
  if the unit follows the secret, both or neither: `Heard` takes any of these.
  `ClientData` has the secret itself.
- `deferred` is a set: two notices of one handler do what one does. The first
  config-changed is the oldest event of a unit, so its notice is emitted first.
- A password is a number never used before (`FreshAbove`); `generate_password`
  draws 32 random characters. The smallest unused number is taken: passwords are
  only compared for equality.
- A certificate is its issuer and a serial number; the private key, CSR, chain
  and PEM files go with it.
- `remove_cert` followed by `import_cert` of one alias is one step; a crash
  between them is repaired by the same retry as one before them.
- `certificate_available` is queued like an event of Juju. The library emits it
  inside the hook that brings the certificate and keeps its own record in
  a secret that a failed hook rolls back, so that it is emitted again.
- The snap is installed (`installed` true); `container_can_connect` is
  the constant true on machines.
- `reconcile_routes`, `reconcile_client_config` and the oauth relation touch
  only databags and a file that no step here reads; they belong to `AppData`.
- `truststore_changed` takes the fingerprint of a CA with the hash of the CA's own
  signature (`Sha256CAs`). The runs take every CA to be signed with SHA-256; for
  another one `RestartHasCause` fails, because the service is then restarted by
  every config-changed.

### Runs

All runs use `MCUnitAgent`, which gives the constants their values: two CAs, two
values of `Data`, nineteen passwords (no run runs out of them), a set of worlds
per run.

| run | bounds | shows |
|---|---|---|
| `unit_normal` | 6 worlds that differ in every input, 2 changes, no faults | `StoresOpen`, `TruststoreTrustsUnitCert`, `FileIsApplied`, `TrustConverges`, `ReconcileStartsServer`, `RestartHasCause`: stores, databags, file and service stay in step; everything wanted is trusted; no restart without a reason |
| `unit_faults` | 3 worlds, 2 changes, 1 fault: a crash, a failed restart; lost leases | `JvmOpensCacerts`, `KeystoreServesUnitCert`, `StorePasswordsPermanent`: what survives faults |
| `unit_live` | 4 worlds, of which two differ in a client's CA alone, 1 change, fairness | `ConfigConverges`: the service ends up running what is asked for, and the truststore trusts the clients' CAs |

Two changes are enough for each pair of inputs to change in either order, with
hooks, deferrals and retries between them; the defects found need one change
and one fault at most. One fault at a time is the usual assumption for a hook.
The worlds are chosen so that: OAuth CAs come, change and go; a client CA is or
is not the TLS provider's own; the provider comes, renews and goes; ingress
takes over TLS; the admin password is rotated.

A client CA that is rotated in its secret, with endpoints as they were, raises
secret-changed only. The library's handler of it is `pass`
(data_interfaces.py:4030), the charm's looks for `system-users` and nothing else
(user_secrets.py:39), so that the truststore lacks the new CA with no hook queued,
until update-status. `TrustConverges` therefore excepts the clients' CAs while `silent`,
and `ConfigConverges` says that the timer brings them in the end.

### What the code does not do

Five things that the code's own words promise do not hold. No run is kept for
them; their properties are in the module (`StoresOpen` is also true without
faults), and adding one to a cfg prints the trace.

- `FilePasswordIsLive`: `Workload.restart` logs a `SnapError` and returns
  (workload.py:55). config-changed has written application-local.yml before
  (charm.py:128), so that no later one finds a difference: the service keeps the
  old admin password while README.md:43 has the operator read the new one from
  the file. Steps: rotate the password; the restart fails; nothing follows.
  (`FileIsApplied` says that it takes a failed restart.)
- `ServedCertIsCurrent`: a renewed certificate, or the self-signed one after the
  provider has gone (tls.py:138, 164), goes into a keystore of the same path and
  password. application-local.yml does not change, config-changed returns at
  charm.py:121, and the service keeps the certificate that it loaded.
- `ServerHasItsStores`: on a unit that does not lead, `_tls_relation_broken`
  removes the stores and returns (tls.py:134). If an OAuth CA event is handled
  before the next config-changed, it restarts the service, whose file names a
  keystore that is not there.
- `OAuthCasAreTrusted`: config-changed calls `reconcile_ca_truststore` and ignores
  its True (charm.py:115). If it is the first to see a new CA (an update-status
  between the relation's change and its event), the event finds nothing to
  change and the JVM is not restarted: it never trusts the CA.
- `StoresOpen` with a crash: `init_unit_tls` makes passwords in the hook's databag
  and stores on disk (tls.py:85). If the hook dies after that, the retry makes
  new passwords, keytool cannot open the truststore that is there, and every
  later hook fails.

Most of this comes from one design decision: `_on_config_changed` detects
a change by comparing the file it would write with the file that is there. What
is not in that file (the keystore's content, the CAs of the JVM, a restart that
failed) is not detected.

### Fairness

`FairSpec` assumes of Juju what it does: the agent runs on with a hook it
started and retries one that failed (`WF` of `AgentStep`), serves a queued event
in the end and fires the update-status timer (`SF`: only possible while the unit is
idle, which is so again and again), and the unit that leads runs its own
hooks (`WF` of what another leader does). Nothing makes the world change.

## 4. AppData

Several units (two in the runs) and what they share. Its variables are what
Juju holds (`world`, `leader`, `pending`), the three databags that only the
leader may write (`app`, `routes`, `client`), and for each unit what it
deferred, the hook it runs (`hook`), its routes.json (`file`) and the login part of
its application-local.yml (`conf`). `suspect`, `drawn`, `made` record history
for a property, for fresh passwords and for numbering relations.

| in the model | in the code |
|---|---|
| `hook[u].world`, `.app` | what a hook sees: relation data as they were when it started, its own writes included |
| `Secrets`, `OAuth`, `OAuthBroken`, `Reconcile` | the handlers of the same name, whole; each asks who leads when it runs |
| `RouteLib`, `OAuthLib` | the libraries' handlers, which publish what `__init__` of the charm gave them |
| `Emit` | `config_changed.emit()`: its handlers are put before the rest of the hook's work |
| `Commit` | the databags change when the hook ends, and a unit that lost the lead is refused |
| `cfg` in `world` | `route_config` as one value: host name and addresses of the units |

Hooks of different units overlap. `Quiet` orders the others' steps before the
first or after the last handler of a hook; a handler touches nothing that is
not its unit's own, so nothing is lost but a lead that ends between two
handlers, which differs from one that ends after them only in that the hook fails
with fewer files written (a hook that dies has that effect as well). A follower
that gains the lead does so between hooks.

The peer relation's events are observed by nothing: followers learn of what the
leader wrote in update-status or any other hook, which is why the liveness
properties need the timer. Secrets that `generate_password` makes are numbered
in order of their drawing; the provider's secret is the number of the relation.
What the oauth library does with a redirect URI without a host, while
HAProxy has not answered, is the library's affair and not modelled.

| run | bounds | shows |
|---|---|---|
| `app_safe` | 2 changes of options, backend relation or leader, each relation added twice at most, 1 hook that dies, leases that end within hooks | `FirstLeadersCache`, `LoginHasPassword` |
| `app_live` | 2 changes of system-users, oauth relation or leader, fairness | `RotationReachesEveryUnit`, `ClientConfigConverges` |

Two units are enough for a leader, a follower and every way in which they swap.
With two changes each pair of kinds comes in either order, at any point of the
deployment and of the hooks, which are not bounded.

The three things the leader hands out are handled in three ways, and the
properties tell them apart. The admin password and the client registration are
looked at again by every config-changed, whoever leads then, and converge. The
client secret is looked at in one event only and may be missed. The routes are
looked at again but compared with a file of this unit, which outlives the
failure of a hook and a change of the leader; `FirstLeadersCache` says as long
as neither happened the file is right. Two properties of the module are
therefore false and in no run:

- `RoutesConverge`: `reconcile_routes` writes routes.json at once (charm.py:219),
  the databag is committed when the hook ends. If the hook dies in between, the
  retry finds the file up to date (charm.py:216) and HAProxy keeps the old
  routes until they change again. The same happens when the lead comes back to a
  unit after another one has published other routes.
- `ClientSecretConverges`: each unit handles the oauth relation's change once, and
  only the one that leads then keeps the secret (oauth.py:53). If the lead moves
  from a unit that has not handled it yet to one that has, nobody keeps it.

`FairSpec` is that of `UnitAgent` for each unit; strong fairness stands for weak
where `Quiet` keeps an action waiting for another unit's handlers. HAProxy and
the identity provider answer.

## 5. Certificates

One unit, its provider, and Juju between them. A hook works on a copy `w` of
what the unit owns and takes one handler or library function a step; `Commit`
takes the copy over, `Fail` drops it and keeps the event.

| in the model | in the code |
|---|---|
| `req`, `prov` | the unit's and the provider's databags: requests, certificates (some marked revoked, some wrongly for a CA) |
| `secrets` | one secret per request with the certificate, its age, and the age at which it expires |
| `libKey`, `own` | the library's key secret; key and certificate in the charm's peer databag |
| `EnsurePrivateKey`, `CleanupAttributes`, `CleanupRequests`, `SendRequests`, `FindAvailable`, `TakeOffer` | `_configure` of the library, in its order |
| `SecretExpired`, `RelationBroken` | the library's and the charm's handlers, whole |
| `CertificateAvailable`, `InitUnitTls`, `ConfigChanged` | `TLSHandler`; deferral while the snap is missing |
| `ProviderIssues`, `ProviderReplaces`, `RevokeAllCertificates`, `ProviderTidies` | the provider's side of the library |
| `Age` | time: a certificate is fresh, due at nine tenths of its life, expired |

Keys, requests and certificates are identities; one that nothing refers to is
used again, so that renewals go on forever in a finite model. A hook's steps do
not interleave with the provider's: Juju shows a hook a snapshot. `Age` waits
for the hooks that are due, as a day is longer than a hook: this is an
assumption of `RenewalAskedInTime`, in the runs and in its proof.

| run | bounds | shows |
|---|---|---|
| `certificates` | 5 keys, 4 requests, 2 certificates for each, 2 address lists, 2 deferred events, 1 disturbance: the relation removed, the unit moved to another address, a certificate replaced, revoked, or issued for a CA | `IdentityMatches`, `OfferIsUsed`, `RenewalAskedInTime`, `CertificateArrives`, `ExpiredIsReplaced`, and `IdentitySpec`: the module implements `UnitIdentity` |
| `certificates_revoked` | violation | `RevokedIsDropped` |

The bounds on keys and requests are never what stops a behaviour: with one more
of each TLC finds the same 72,085 states. One disturbance at any point of issue,
renewal, deferral and failed hooks is every disturbance from every state of an
undisturbed unit; with two of them `OfferIsUsed` fails: when the relation was removed twice, the
secrets that are left of it expire in the new one and each asks for a renewal,
so that two requests that are alike are both answered; as one of them is given up
later, the unit goes on with its certificate although the other is offered,
because that one was announced before.

`RevokedIsDropped`: for a revoked certificate the library removes the secret and
emits nothing (tls_certificates.py:1636, against its docstring at 1618). The
unit goes on with the revoked certificate, and as its secret is gone nothing
asks for a renewal either.

Fairness: `WF` of the unit's hooks, of a provider that answers requests and
removes certificates without one, and of time.

## 6. Health

One unit and its outside: snapd, the store, the service, the relations that a
status speaks of. A step is one read of the outside, so that the service may go
up or down between two attempts of `active` or of `health_check`.

| in the model | in the code |
|---|---|
| `Start`, `CharmRaises`, `w.cache` | `SnapCache` is read when the charm object is made, or raises |
| `Ensure`, `UpdateSnapApps`, `Hold` | `Workload.install`: `Snap.ensure` with its last question to snapd (snap.py:600), `Snap.hold`; a `SnapError` is a failed install, a time-out of that question fails the hook |
| `ConfigChanged` | config-changed, also emitted by upgrade-charm and update-status: without the snap it finds no keytool |
| `Check`, `Active`, `Get` | `health_check` under `tenacity`: `installed` and `context.status`, `Workload.active` with five attempts, `requests.get` |
| `Raised` | the retry, and `retry_error_callback` after the third exception |
| `w.pending`, `Gravest`, `Collect` | `pending_inactive_statuses` and ops' choice of a status, for the application (leader) and the unit |
| `SnapdChanges`, `StoreChanges`, `ServiceChanges`, `AutoRefresh` | the daemon and the store; a refresh of a snap that is not held |

| run | bounds | shows |
|---|---|---|
| `health` | 2 revisions, 2 changes of the outside, fairness | `ActiveIsEarned`, `InstallIsTold`, `StatusConverges` |
| `health_active` | violation, the same bounds | `ActiveMeansAnswered` |

Two changes allow the service or the daemon to go and come back between any two
reads of one hook, which is what the retries are about. Hooks are not bounded.

`InstallIsTold` is about hooks that end. `_update_snap_apps` may raise
`TimeoutError`, which `ensure` (`SnapAPIError` only) and `Workload.install`
(`SnapError` only, workload.py:109) let pass: the hook then fails, with the snap
installed and not held. Juju runs it again, and it holds the snap that it finds,
which is why `hold` must not depend on an install in the same hook.

`ActiveMeansAnswered`: when `requests.get` raises three times (the service is up
and does not accept connections yet, or expects TLS), `health_check` returns
False without a status and the unit is shown active (charm.py:179). README.md:30
says that an active unit is ready to be used. `ActiveIsEarned` is what remains:
the service was seen running in that attempt, and the unit of the leader shows nothing
milder than the application. A snapd that lets a request
time out has the same effect even before that, and is excepted in both.

Fairness: Juju runs hooks, update-status among them (`WF` of `HookStep`), and
a service that starts is up some time. `StatusConverges` asks nothing of what
changes: it is about what stays true.

## 7. DataOps and ClientData

`DataOps` has class `Data`: `Fetch`, `Update`, `Delete` on a view of databags and
secrets, with the decision, at each call, of where a field is. `ClientData` puts a
relation to Kafka, Connect or Karapace on top.

| in the model | in the code |
|---|---|
| `bag`, `secret`, `seen` | both databags, the provider's secrets by group, what the provider's `diff` has seen |
| `since` | history: the revisions each secret has had since the provider's databag last changed |
| `ProviderPublishes`, `CallFields` | the calls that one hook of the provider makes (`set_credentials`, `set_tls`, `set_tls_ca`, `set_endpoints`), in any of the sets of `Publications` |
| `hook[u]` | what unit u's hook sees, what `CachedSecret` has kept, which fields it still has to read |
| `RelationCreated`, `SecretChanged`, `Read`, `Write` | the requirer's handlers, the charm's, and the reads of `ClientContext`; the request is made by the unit that leads in its own relation-created |
| `ProviderChanged` | `diff` and the events the provider's charm gets |
| `Publish`, `Premature` | `ProviderData._update_relation_data`: nothing before the request |

The hook of a unit that writes its configuration reads field by field
(`ClientContext`), and the provider may publish between two reads.

| run | bounds | shows |
|---|---|---|
| `client_data` | 2 units of which a given one leads first, the relation to Kafka, 2 publications (all fields, or what is in secrets only: credentials and CA), 1 move of the lead, 1 hook that dies, fairness | `CredentialsStaySecret`, `PairsAreWhole`, `AskedOnce`, `RestIsAsPublished`, `ClientsConverge` |

The other two kinds have the same handlers and fewer fields (`Kinds` takes
them; TLC finds the safety properties true of all three). Two publications are
what a pair can be mixed of. The units are interchangeable, so that it does not matter
which one leads first. The safety properties, which are proved for any sets of
calls, TLC finds true also with each call alone, several combined and either
unit first, eight sets and 1,960,106 states.

`RestIsAsPublished` is the safety half of `ClientsConverge`. It says how far a unit
with nothing queued may be behind: what is in the databag it has as it is, and each
secret wholly in one revision that it had since the databag last changed. That need not
be the newest one, nor need credentials and TLS data be of one publication: a
publication that changes secrets alone, of credentials, of `tls` or of `tls-ca`, raises
secret-changed only, which the library and the charm ignore
(data_interfaces.py:4030). Nothing older is possible, nothing mixed within a
secret, and nothing of a relation that is gone. `ClientsConverge` says that update-status
brings the rest.

Not so (in no run): `RequestIsMade`, as the unit that leads in its own
relation-created hook alone makes the request (data_interfaces.py:2076): if the
lead moves from a unit that has not handled it to one that has, nobody
does; `ClientsConverge` and the half of `AskedOnce` that says that the provider is asked
therefore assume that the lead stays until every unit has handled the event (`lost`). And `ChangedCredentialsAreApplied`: the charm observes
no event of the library for a secret that changed; a rotated password or
CA is applied by the next config-changed, at the latest of update-status.

Fairness: `SF` for each unit's hooks and for the provider's, because steps that
read nothing which may move wait until no hook is open; they are possible again
and again. Publications, moves and faults are not fair.

## 8. SharedDict and PeerData

`SharedDict` is what the handlers take the peer relation for: a dictionary of the
application and one of each unit; a hook works on a copy, which the others see
when it ends well; what a unit that lost the lead wrote for the application
makes its hook fail. `PeerData` is what the library does: a databag and a secret
per scope, `RelationContext.update` with its loop of deletions, `DataPeerData`'s
rule that other units' writes are ignored.

| run | bounds | shows |
|---|---|---|
| `peer_data` | 2 units, two secret fields of the application, a secret and a plain one of a unit, 3 updates, 1 move of the lead, 1 hook that dies | `PeerSecretsStaySecret`, `IsADictionary`: the module implements `SharedDict` |

Three updates make a secret, remove it and make it anew. `UpdateIsSet`, which is
proved (section 10), says of every update, in whatever state others have left secret
and databag, that it is one assignment to the dictionary. The units are interchangeable (`SYMMETRY`): they are
told apart only by who leads, which any of them may, and the run checks no
liveness.

## 9. ConfigContent and Routes

`ConfigContent` has the sections of application-local.yml as functions of the
context (`SpringSsl`, `SpringSecurity`, `Server`, `Rbac`, `Auth`, `KafkaCluster`),
their union, and `Clean`, which drops lines that end in "null"; on the other side
what the UI makes of a file (`Scheme`, `RolesOf`, `Rights`), which is external.
`Routes` has the leader that publishes the route, HAProxy with its checks over
all applications, and every unit, which writes its file from what it sees.

| in the model | in the code |
|---|---|
| `bag`, `addressed` | application and unit databags of the route |
| `cache` | routes.json of the leader |
| `written[u]` | the context that unit u's file was written from (`File` is a function of it) |
| `other`, `served`, `hosts`, `url` | another application behind the same HAProxy; what HAProxy accepts, routes to and publishes |
| `Hook` | a unit's hook for an event of the route or of the options: the library's handler, `reconcile_routes`, the file |
| `HAProxyRuns` | HAProxy's end of the library: validation, uniqueness, gRPC, endpoints |

| run | bounds | shows |
|---|---|---|
| `routes` | 2 units, three clients, 1 good and 1 bad host name, 4 mappings of users to roles, 2 passwords of which one ends in "null", 3 requests of another application, 3 changes, fairness | `FileStandsAlone`, `RestIsAsConfigured`, `UsersAreServed` |

Three changes are enough for a relation, an option and another application
to change in any order. A hook is one step and the leader stays, because `AppData` has the
rest.

`RestIsAsConfigured` is stronger than it looks: it is about every state in which no
hook is queued, whatever came before, and it does without update-status, on which
`UsersAreServed` may fall back. It shows that the hooks that Juju queues for each change
are enough, but for one: Juju tells the leader nothing when another unit
comes or goes, so that HAProxy has the units' old addresses until update-status
(its premise `Load(bag).hosts = members`).

The code as it is, read on the way:

- a password that ends in "null" is dropped from the file with its line
  (config.py:319), so that README.md:45, which reads it from there, finds none;
- `schemaRegistry` is "http://" without Karapace (config.py:233): the text is never
  empty, "or None" has no effect;
- in HAProxy's end of the library, a relation with number 0 is exempt from
  `check_grpc_requires_https` (its number counts as false), which `OtherId` = 0
  exercises.

Fairness: `WF` of each unit's hooks and of HAProxy's.

## 10. Proofs

Every theorem is about the specification with all values of its constants that
satisfy the named assumptions, which TLC evaluates on each run. Each is proved
from an inductive invariant, with one lemma per action; TLC has checked the
inductive invariants on the bounds of the runs as well.

### UnitAgent

`UnitAgentProofs` has what holds under all faults first:

- `TypeCorrect`: `Spec => []TypeOK`.
- `PasswordsPermanent`: `Spec => StorePasswordsPermanent`. The strengthening
  `BufferPreserves` says that the buffer of the hook that runs never holds
  another password than the committed one, for the application only as long as
  this unit leads. It is inductive because the lead is not regained before the
  hook ends and because `AppPasswords` and `SelfSigned` keep what is there.
- `JvmOpensItsTruststore`: `Spec => []JvmOpensCacerts`. Two different handlers
  restart the service and only one of them sets the environment, so the
  invariant needs the order of handlers: `EnvironmentFirst` says that as long
  as the environment was never set, a config-changed is queued, deferred or
  still to be called in this hook, ahead of the handlers of the OAuth CAs. Its
  other parts are which handler is at which step (`TaskInv`), the passwords
  (`EnvInv`), the first hook (`FirstHookInv`) and deferral by a follower
  (`DeferredInv`).
- `KeystoreServes`: `Spec => []KeystoreServesUnitCert`. Between `remove_stores`
  and the commit, databag and disk disagree, and a hook may die there.
  `RenewalAhead` says that the disk agrees with the certificate this hook is
  about to commit, or that the hook (or its retry) still has the handler ahead
  that writes the stores; `OrderInv` says in which order handlers are called,
  so that nothing else comes between.

Three properties are theorems only if no hook is cut short, which is the
assumption `HooksEnd` (`Faults \subseteq {"restart"}`: restarts may fail, hooks
do not die and the lead outlives them). It cannot be dropped: with crashes TLC
refutes all three, with lost leases the first, for the reason given in section
3 (passwords that the retry makes anew).

- `KeytoolOpensStores`: `StoresOpen`; `TruststoreTrusts`:
  `TruststoreTrustsUnitCert`; `ReconcileStartsTheServer`:
  `ReconcileStartsServer`. `SmoothInv` relates the disk to the databag as the
  running hook will commit it: with a certificate there is a truststore with its
  bundle and under its password, without one there is none (`TruststoreFollows`);
  the copied cacerts opens with the application's password; and no hook fails.

`UnitAgentConverge` has what is so once everything is handled:

- `FileApplied`: `FileIsApplied`, if restarts succeed and hooks do not die
  (`RestartsEnd`). TLC refutes it with either fault: `restart` swallows its error,
  and a hook that dies after `write_config` leaves no difference for its retry
  to find. A lease that ends within a hook does no harm.
- `TrustStoresConverge`: `TrustConverges`, under all faults if the CAs' own
  signatures use SHA-256 (`Sha256Only`), and for any CAs under `HooksEnd`.
  `TrustInv` and, for the OAuth CAs, `CasInv` name what brings a store that is
  behind up to date: a queued event, a deferred handler, the rest of this hook, or its
  retry. For a client's CA that came without relation-changed there is none of these,
  which `silent` says until a config-changed has run. With
  another hash `truststore_changed` reports a change that is none, and a hook that
  dies in the update it sets off has no event behind it.
- `RestartsHaveCauses`: `RestartHasCause`, if nothing fails and with
  `Sha256Only`. TLC refutes it without either: other hashes restart the service
  at every config-changed, and after a failed hook the retry restarts it once more.
  `CauseInv` says which of the loaded files a hook has changed so far (`LoadedInv`)
  and that a certificate which arrives is never the one the service runs
  with (`CertInv`).

### AppData

`AppDataProofs`: `TypeCorrect`, and `LoginPassword`: `Spec => []LoginHasPassword`.
The guard that keeps a follower waiting asks for the truststore's password, the
file needs the admin's; `LoginInv` says that the two are there together or not
at all, in the committed databag and in what every hook sees.

`LeadersCacheIsTrue`: `Spec => []FirstLeadersCache`. `CacheInv` says of each
unit that a relation-changed follows a relation-created (`EventsInOrder`), that
a failed hook is known as such, that the library's handler comes before the
charm's (`LibInPlace`), that a unit which never led has no routes.json, and of
the leader that its file agrees with what is published or that this hook will
yet write it (`WillSync`).

### Certificates

`CertificatesProofs`: `TypeCorrect`; `CertificateHasItsKey`: `Spec =>
[]IdentityMatches`; `ImplementsUnitIdentity`: `Spec => IdentitySpec`, every
step of the library, the charm, the provider, the operator and time is a step of
`UnitIdentity` or a stutter; `RenewedInTime`: `Spec =>
[]RenewalAskedInTime`; and `OffersAreUsed`: `Spec => ([](rel # "dying") =>
[]OfferIsUsed)`.

What could go wrong is that a hook takes a certificate over beside a key it was
not asked for with: the library makes keys, the charm keeps one, and events are
deferred while both go on. `HookInv` goes along the queue of functions of a
hook: requests of other keys are dropped by the cleanup before any offer is
looked at, so that what `FindAvailable` finds has the library's key; an event of
an available certificate is deferred only while the snap is missing, when the
unit has no key of its own, and the library's key does not change meanwhile;
the charm's handler of relation-broken is the last of its hook, and it is called
with the relation gone. `DeferredInv` says what may be in the list of
deferred events, `StateInv` what is so between hooks.

The refinement follows from it: a hook that starts, steps or fails changes
only its copy, which `UnitIdentity` does not see; `Commit` is `SelfSign`,
`TakeOver`, `Unrelate` or nothing, by the event and by what the hook did; the
provider's steps are `Issue`.

That the renewal of the certificate in use was asked for in time is not inductive:
the next one in use may be one whose event was deferred, or that the running hook
has announced, and it may have aged meanwhile. `RenewInv` is about the heir, the
certificate that will be in use when all that is under way has been handled: the
last one that the running hook's queue brings, else the last of the
deferred events, else the one in use. It is `Covered`: its request is gone, or
its offer is revoked or for a CA, or its secret has a second content, or its
secret is still to ask when it expires, or an offer for the same request, which no
secret has, is still to be looked at by this hook or the next. A step that takes an
offer up or removes a secret leaves some other reason. Within a hook no offer is
looked at before a certificate that was already on its way (`OffersLast`); offers are
looked at after the requests for other addresses were dropped (`AddressFirst`),
and a relation's end drops all requests (`RequestsDropped`). TLC has checked
`RenewInv` with two disturbances of every kind (792,265 states), and
`RenewalAskedInTime` with three (7,235,311).

A unit that would not use an offer must have taken another certificate instead, or
have forgotten that it took this one. `UseInv` excludes both where the relation is
never removed. No two requests of the unit are alike (`OneRequestEach`): one is made only if
none with the present key and addresses is found, and only after those of other keys were
dropped (`SendsClean`). The provider has one offer for each request (`OneOfferEach`). A secret
whose request stands is of the certificate that is in use when all that is under way has been
handled (`Chosen`); every offer that is neither revoked nor for a CA has such a secret,
or is still to be looked at; and from the first secret on the unit keeps its private
key, that of all its requests. When an offer is looked at there is so
one request at most, and the offer taken is the only one there is for it. TLC has checked
`UseInv` of such a unit with two disturbances (224,032 states) and with three (899,212).
A removed relation breaks `OneRequestEach`: the secrets it leaves ask for a renewal
each, without a look at the requests there are.

### ClientData and PeerData

`ClientDataProofs`: `TypeCorrect`, `CredentialsSecret`, `PairsWhole`,
`RestPublished` and `Asked`. `ClientInv`: request and list of secret fields are made
together; a secret of a user is empty or has both fields of one publication;
what a hook has read so far came from the one revision that it keeps, or from
no secret at all; the diff has seen only what is in the databag.

`RestPublished` (`Spec => []RestIsAsPublished`) needs to know of a hook that is still reading
that it will end well: `HoldsInv` says that, as long as no relation-changed is queued,
its copy of the databag is the present one, each revision it keeps is one of `since`,
each field it has got is what is read of that revision (`GotInv`), a secret that was not
there when asked for is not asked for again, and what it has not got is still in
`todo`, the CA last, because whether it is read depends on the field tls. `SinceInv`
says that every revision of `since` has the fields of its group and is empty exactly
if the databag does not name the secret. Both are kept by the provider's publications for a
reason that is a lemma, `PublishRest`: one that leaves the databag as it was only
adds a revision, and any other leaves relation-changed queued for every unit.
`ReadsAs` and `WrittenSays` go from the fields that were read to the file.
`QueueInv` (relation-broken exactly without the relation) excludes that a hook that dies
is not repeated. `Asked` (`AskedOnce`) goes by `AskedInv`, the diff has what was asked
for, and `ReachInv`: while the request is not made, the unit that leads has
relation-created to handle.

`PeerDataProofs`: `TypeCorrect`, `SecretsStaySecret` (`PeerSecretsStaySecret`),
`UpdatesAreSets` (`UpdateIsSet`) and `PeerRelationIsADictionary`: `Spec =>
IsADictionary`, the refinement of `SharedDict`. The library decides at each call
where a field is: a field that is secret goes to the secret once the relation
lists it, and is looked for in both. The argument is about the operators of
`DataOps`, for every finite set of fields: what `Fetch` returns after `Update` and after
each of the deletions that `RelationContext.update` makes. With that, an update
is one assignment to the dictionary of the hook, `Commit` copies one scope to the
other, and a hook that lost the lead and wrote for the application fails, as in
`SharedDict`.

### Health

`HealthProofs`: `TypeCorrect`; `ActiveEarned` and `InstallTold`, action properties from `HealthInv`: statuses are collected in
order and a failed install is the first of them (`PendingInv`), which steps of a
check have seen what (`CheckInv`), what the install has reached and whether a
refresh fell into it (`InstallInv`, also between ensure's install and its last question). `GravestFacts` says what the choice among
the statuses returns; its existence of a first one is the least element of a set
of naturals. `EndIsCollect` shows that no other action ends a hook well.

### ConfigContent and Routes

`RoutesProofs`: `TypeCorrect` (a host name that was refused never gets to
HAProxy, whose URL is therefore ours or its default), and `FilesStandAlone`:
`Spec => []FileStandsAlone`, for any mapping of users to roles, not only the four
that TLC tries. `RouteInv` says of every file that it was written from booleans
and from a mapping that the validator let pass, as no hook runs with another.
`WholeFile` has, for each path the property is about, when it is in the union of the
sections; `CleanedFile` that cleaning touches only values that end in "null",
which the words of the file do not (`NullAssumption`); `InternalsAreAdmins` goes
through `ROLE_PERMISSIONS`.

`RestServed`: `Spec => []RestIsAsConfigured`. A hook trusts what earlier hooks left
(the file, routes.json, both databags), so that the invariant, `RestInv`, says of each
what it is worth while the hook that would correct it is not queued: `FilesTold`
(the file of a unit without such a hook was written from the present context, but for
a URL that HAProxy has not given yet), `RefusedWaits` (an option that is refused
leaves a hook queued, so that nothing rests), `RelationFresh` and `BagTold`
(without relation-created queued, what is published has the name, with a URL and no
hook it is what routes.json and the option would publish, so that comparing
with routes.json is enough), `HAProxyTold` (HAProxy has acted on all it was told, and its
URL is that of the last host name it accepted). That the service is published under
the present host name alone is a fact of `Dump` on a databag cleared before,
`QueuedAll` and `FilesStay` carry the files over every other step. `NamesAssumption`
says that host names are not empty and that a redirect URI does not end in "null".

### Only model-checked

- liveness (`ConfigConverges`, `RotationReachesEveryUnit`, `ClientConfigConverges`,
  `CertificateArrives`, `ExpiredIsReplaced`, `StatusConverges`, `ClientsConverge`,
  `UsersAreServed`), which is out of the prover's reach;
- `OfferIsUsed` of `Certificates` where the relation is removed: TLC finds it true
  with one disturbance, and false with two removals (section 5), so that the theorem
  is about a unit whose relation stays;
- what the code does and its documents deny (`RevokedIsDropped`,
  `ActiveMeansAnswered`), where TLC shows a trace.

## 11. Not modelled

- Kubernetes (`SUBSTRATE` is `"vm"`), Terraform, CI.
- `build_sans` as such (it is a value in `Certificates`) and `sans_change_detected`,
  which nothing calls; the X.509 and PEM encodings.
- How `map_env` parses `/etc/environment`.
- The tls flag that relation-created writes and nothing reads; `username-attribute`,
  which goes into the file as it is.
- `lib/.../karapace.py`, which nothing imports.
- Of tls_certificates: the application mode and what this charm does not call
  (`regenerate_private_key`, `sync`, `renew_certificate`). Of data_interfaces: peer data with several
  secret groups, migration of labels, the requirers of databases and other
  charms. Of haproxy_route: fields of a route that this charm leaves at their
  defaults. Of snap: options, aliases, logs and local installs.
- The oauth library's own checks of a redirect URI without a host.
