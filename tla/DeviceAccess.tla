---------------------------- MODULE DeviceAccess ----------------------------
(***************************************************************************)
(* The device diagnostics of the dashboard: requests of /api/dast/ and     *)
(* /api/console/ that drive adb, the middleware that admits them, the      *)
(* scope guard they carry and the commands they issue.  A handler runs     *)
(* from one await to the next in one step, and awaits only while a command *)
(* runs on the device; a dynamic assessment goes on in the background,     *)
(* holding its device, after its request is answered.                      *)
(***************************************************************************)
EXTENDS DevicePrograms, FiniteSets

CONSTANTS
    Request,     \* the HTTP requests
    Serial,      \* device serials
    Package,     \* application packages
    Allowed,     \* MOBILEAG_ALLOWED_DEVICES
    Policies,    \* the policies an operator may save
    Offers,      \* Offers[r]: the routes request r may ask for
    DastJobs     \* how many dynamic assessments may run

None == "none"
NoPolicy == [devices |-> {}, packages |-> {}, actions |-> {}]

ASSUME ScopeAssumption ==
    /\ Allowed \subseteq Serial
    /\ Policies \subseteq [devices : SUBSET Allowed, packages : SUBSET Package,
                           actions : SUBSET Actions]
    /\ Offers \in [Request -> SUBSET DOMAIN Routes]
    /\ None \notin Serial \cup Package \cup Request \cup DOMAIN Routes
    /\ DastJobs \in Nat

VARIABLES
    policy,      \* the persisted scope policy
    live,        \* the session is neither expired nor revoked
    req,         \* the requests
    settings,    \* settings[s]: the proxy keys that are set on s
    dump,        \* dump[s]: whose hierarchy file is on s
    staged,      \* whose temporary certificate file is on the host
    jobs         \* DAST_JOBS, the devices of running dynamic assessments

vars == <<policy, live, req, settings, dump, staged, jobs>>

Idle == [state |-> "idle", route |-> None, serial |-> None, package |-> None,
         todo |-> <<>>, seen |-> None, troubled |-> FALSE]
Init ==
    /\ policy = NoPolicy
    /\ live = TRUE
    /\ req = [r \in Request |-> Idle]
    /\ settings = [s \in Serial |-> {}]
    /\ dump = [s \in Serial |-> None]
    /\ staged = {}
    /\ jobs = {}

-----------------------------------------------------------------------------
\* What the policy approves for an action on a serial and a package.
check_action(p, action, serial, package) ==
    /\ action \in p.actions
    /\ \/ action = "connect"
       \/ action \in {"wireless", "cert"} /\ serial = None
       \/ /\ serial \in p.devices
          /\ action \in PackageBound \/ package # None => package \in p.packages

\* The guard a handler carries: the session, the server's list, the policy.
Guard(q) ==
    /\ live
    /\ q.serial # None => q.serial \in Allowed
    /\ \A action \in Routes[q.route].needs :
          check_action(policy, action, q.serial, q.package)

IsJob(q) == q.route \in {"fuzz", "fuzz_all"}
SetsProxy(q) == q.route \in {"proxy_setup", "proxy_clear", "settings_put", "settings_delete"}
Overlapped(r, q) ==
    \E o \in Request \ {r} : /\ req[o].state = "waiting"
                             /\ req[o].serial = q.serial
                             /\ SetsProxy(q) /\ SetsProxy(req[o])

\* The middleware binds the session; for most diagnostics it also checks the
\* device and the policy, once.
Arrive(r) ==
    /\ req[r].state = "idle"
    /\ live
    /\ \E route \in Offers[r] :
       \E program \in Routes[route].programs,
          s \in IF "serial" \in Routes[route].names THEN Serial ELSE {None},
          p \in IF "package" \in Routes[route].names THEN Package ELSE {None} :
         LET q == [Idle EXCEPT !.route = route, !.serial = s, !.package = p, !.todo = program]
             admitted == Routes[route].via = "dast" => Guard(q)
         IN req' = [req EXCEPT ![r] =
                IF admitted THEN [q EXCEPT !.state = "admitted"]
                ELSE [q EXCEPT !.state = "refused", !.todo = <<>>]]
    /\ UNCHANGED <<policy, live, settings, dump, staged, jobs>>

\* The handler's check before its next command, which then runs; its answer if
\* there is none left.
\* (mutant) the scope is checked on admission only
OnwardUnchecked(q) == [q EXCEPT !.state = IF q.todo = <<>> THEN "replied" ELSE "waiting"]
Onward(q) ==
    IF ~Guard(q) THEN [q EXCEPT !.state = "refused", !.todo = <<>>]
    ELSE [q EXCEPT !.state = IF q.todo = <<>> THEN "replied" ELSE "waiting"]
\* (mutant) a job that loses its scope keeps its device
ReleaseOnSuccess(q, over) ==
    IF IsJob(q) /\ over.state = "replied" THEN jobs \ {q.serial} ELSE jobs
Release(q, over) == IF IsJob(q) /\ over.state # "waiting" THEN jobs \ {q.serial} ELSE jobs

Start(r) ==
    LET q == req[r]
        next == Onward(q)
    IN /\ q.state = "admitted"
       /\ ~IsJob(q)
       /\ req' = [req EXCEPT ![r] = next]
       /\ staged' = IF next.state = "waiting" /\ Head(q.todo).does = "push"
                    THEN staged \cup {r} ELSE staged
       /\ UNCHANGED <<policy, live, settings, dump, jobs>>

\* A dynamic assessment takes its device and is answered at once.
AcceptJob(r) ==
    LET q == req[r]
    IN /\ q.state = "admitted"
       /\ IsJob(q)
       /\ IF q.serial \in jobs \/ Cardinality(jobs) >= DastJobs
          THEN /\ req' = [req EXCEPT ![r].state = "refused", ![r].todo = <<>>]
               /\ jobs' = jobs
          ELSE /\ req' = [req EXCEPT ![r].state = "queued"]
               /\ jobs' = jobs \cup {q.serial}
       /\ UNCHANGED <<policy, live, settings, dump, staged>>

Begin(r) ==
    /\ req[r].state = "queued"
    /\ req' = [req EXCEPT ![r] = Onward(req[r])]
    /\ jobs' = Release(req[r], Onward(req[r]))
    /\ UNCHANGED <<policy, live, settings, dump, staged>>

\* What a command that succeeds does to the device.
Effect(r, c, s) ==
    /\ settings' = IF c.does = "put" THEN [settings EXCEPT ![s] = @ \cup {c.key}]
                   ELSE IF c.does = "drop" THEN [settings EXCEPT ![s] = @ \ {c.key}]
                   ELSE settings
    /\ dump' = IF c.does = "dump" THEN [dump EXCEPT ![s] = r]
               ELSE IF c.does = "rm" THEN [dump EXCEPT ![s] = None]
               ELSE dump

\* The command ends: done, failed, or killed at its time limit.  What the
\* handler computes and checks before its next command is in the same step.
\* (mutant) a command that fails is tried again
EndedRetrying(q, c, done, to, trouble) ==
    [q EXCEPT !.todo = IF done THEN SubSeq(@, to + 1, Len(@)) ELSE @,
              !.seen = IF c.does = "cat" /\ done THEN dump[q.serial] ELSE @,
              !.troubled = @ \/ ~done \/ trouble]
Ended(q, c, done, to, trouble) ==
    [q EXCEPT !.todo = SubSeq(@, to + 1, Len(@)),
              !.seen = IF c.does = "cat" /\ done THEN dump[q.serial] ELSE @,
              !.troubled = @ \/ ~done \/ trouble]
\* (mutant) the file is removed only after a push that worked
UnstagedIfPushed(r, c, done, next) ==
    IF c.does = "push" /\ done /\ next.state # "refused" THEN staged \ {r} ELSE staged
\* The certificate file is removed once the check behind the push has passed.
Unstaged(r, c, done, next) ==
    IF c.does = "push" /\ next.state # "refused" THEN staged \ {r} ELSE staged

Return(r) ==
    LET q == req[r]
        c == Head(q.todo)
    IN /\ q.state = "waiting"
       /\ \E done \in BOOLEAN : \E to \in IF done THEN c.done ELSE c.failed :
            LET next == Onward(Ended(q, c, done, to, Overlapped(r, q)))
            IN /\ c.does = "cat" /\ done => dump[q.serial] # None
               /\ IF done THEN Effect(r, c, q.serial) ELSE UNCHANGED <<settings, dump>>
               /\ req' = [req EXCEPT ![r] = next]
               /\ jobs' = Release(q, next)
               /\ staged' = Unstaged(r, c, done, next)
    /\ UNCHANGED <<policy, live>>

\* (mutant) what is cut off is not settled
JobTimeoutUnsettled(r) ==
    /\ req[r].state = "waiting"
    /\ IsJob(req[r])
    /\ req' = [req EXCEPT ![r].todo = <<>>]
    /\ jobs' = jobs
    /\ UNCHANGED <<policy, live, settings, dump, staged>>

\* A dynamic assessment is cut off; its command is killed.
JobTimeout(r) ==
    /\ req[r].state = "waiting"
    /\ IsJob(req[r])
    /\ req' = [req EXCEPT ![r].state = "replied", ![r].todo = <<>>]
    /\ jobs' = jobs \ {req[r].serial}
    /\ UNCHANGED <<policy, live, settings, dump, staged>>

\* save_scope, and the creation of a guided assessment, replace the policy.
SaveScope(p) ==
    /\ live
    /\ policy # p
    /\ policy' = p
    /\ UNCHANGED <<live, req, settings, dump, staged, jobs>>

\* The session deadline passes, or the operator logs out.
Expire ==
    /\ live
    /\ live' = FALSE
    /\ UNCHANGED <<policy, req, settings, dump, staged, jobs>>

Step(r) == Start(r) \/ AcceptJob(r) \/ Begin(r) \/ Return(r)
Next ==
    \/ \E r \in Request : Arrive(r) \/ Step(r) \/ JobTimeout(r)
    \/ \E p \in Policies : SaveScope(p)
    \/ Expire

\* The event loop runs what is ready, and every command has a time limit.
Spec == Init /\ [][Next]_vars /\ \A r \in Request : WF_vars(Step(r))

-----------------------------------------------------------------------------
Underway(q) == q.state \in {"queued", "waiting"}

\* Every request is in a state a handler can be in, on a device it named.
TypeOK ==
    /\ policy \in Policies \cup {NoPolicy}
    /\ live \in BOOLEAN
    /\ \A r \in Request :
         LET q == req[r]
         IN /\ DOMAIN q = DOMAIN Idle
            /\ q.state \in {"idle", "admitted", "queued", "waiting", "replied", "refused"}
            /\ q.route \in Offers[r] \cup {None}
            /\ q.state = "idle" <=> q.route = None
            /\ q.state = "waiting" => q.todo # <<>>
            /\ q.serial \in Serial \cup {None}
            /\ q.package \in Package \cup {None}
            /\ q.seen \in Request \cup {None}
    /\ settings \in [Serial -> SUBSET ProxyKeys]
    /\ dump \in [Serial -> Request \cup {None}]
    /\ staged \subseteq Request
    /\ jobs \subseteq Allowed

\* No command starts on a device, of a route or in the background, unless at
\* that moment the session is live and the device and every action the request
\* stands for are approved: an approval withdrawn while a command runs stops
\* the rest of the program.
Issues(r) == req'[r].state = "waiting" /\ req'[r] # req[r]
CommandsInScope ==
    [][\A r \in Request : Issues(r) =>
         LET q == req[r]
         IN /\ live
            /\ q.serial # None => q.serial \in Allowed /\
                 (Routes[q.route].needs # {} => q.serial \in policy.devices)
            /\ Routes[q.route].needs \subseteq policy.actions
            /\ Routes[q.route].needs \cap PackageBound # {} => q.package \in policy.packages
      ]_vars

\* DAST_JOBS holds exactly the devices of the assessments that are queued or
\* running, each once and no more than the limit, however they ended.
JobSlotExact ==
    /\ jobs = {req[r].serial : r \in {x \in Request : IsJob(req[x]) /\ Underway(req[x])}}
    /\ \A ra, rb \in Request :
         (/\ IsJob(req[ra]) /\ Underway(req[ra])
          /\ IsJob(req[rb]) /\ Underway(req[rb])
          /\ req[ra].serial = req[rb].serial) => ra = rb
    /\ Cardinality(jobs) <= DastJobs

\* The proxy of a device is set in full or not at all, unless a change of it is
\* going on, lost its scope or a command midway, ran beside another one, or
\* was a write of a single setting.
ProxyExplained(s) ==
    settings[s] \in {{}, ProxyKeys} \/
        \E r \in Request :
            /\ req[r].serial = s
            /\ SetsProxy(req[r])
            /\ \/ req[r].state \in {"waiting", "refused"}
               \/ req[r].troubled
               \/ req[r].route \in {"settings_put", "settings_delete"}
\* A certificate handed to the server stays in the host's temporary files only
\* while it is being pushed or when the push outlived the request's scope.
CertificateExplained(r) == r \in staged => req[r].state \in {"waiting", "refused"}
\* A request is shown a hierarchy another one dumped only if that one was still
\* at work on the device or had left its file there: refused, or its rm failed.
HierarchyExplained(r) ==
    LET o == req'[r].seen
    IN o \notin {req[r].seen, r} => req[o].state \in {"waiting", "refused"} \/ req[o].troubled

\* Settings of the device, files of the host and files of the device that
\* requests share: none of them is left half done, or shown to another request,
\* but by a request that overlapped, lost its scope or whose command failed.
LeftoversExplained ==
    /\ [](/\ \A s \in Serial : ProxyExplained(s)
         /\ \A r \in Request : CertificateExplained(r))
    /\ [][\A r \in Request : HierarchyExplained(r)]_vars

\* Every admitted request is answered, and every assessment gives back its
\* device, whatever the device and the operator do.
RequestsEnd ==
    \A r \in Request :
        req[r].state \in {"admitted", "queued", "waiting"}
            ~> req[r].state \in {"replied", "refused"}
=============================================================================
