------------------------- MODULE DeviceAccessProofs -------------------------
(***************************************************************************)
(* The devices of dynamic assessments and the scope of commands, for any   *)
(* number of requests, devices, packages and policies, and for every       *)
(* program a route may run.  An assessment holds its device from the step  *)
(* that accepts it to the step that ends it, so the set of devices is that *)
(* of the requests under way, each of them once.                           *)
(* The second half is about what requests share on a device: what a route  *)
(* may still have to do says how far it has come, and so what it may have  *)
(* left behind.                                                            *)
(***************************************************************************)
EXTENDS DeviceAccess, FiniteSetTheorems, SequenceTheorems, TLAPS

Holds(r) == IsJob(req[r]) /\ Underway(req[r])
Holders == {r \in Request : Holds(r)}

\* What a request is made of: its route decides what it names.
Shaped(q) ==
    /\ DOMAIN q = DOMAIN Idle
    /\ q.route = None \/ q.route \in DOMAIN Routes
    /\ q.route = None => q.state = "idle"
    /\ q.serial # None => "serial" \in Routes[q.route].names
    /\ q.state = "queued" => IsJob(q)

\* JobSlotExact in parts: without the uniqueness of the holder a request that
\* ends could give away the device of another one.
IInv ==
    /\ DOMAIN req = Request
    /\ \A r \in Request : Shaped(req[r])
    /\ IsFiniteSet(jobs) /\ Cardinality(jobs) <= DastJobs
    /\ \A r \in Request : Holds(r) => req[r].serial \in jobs
    /\ \A s \in jobs : \E r \in Request : Holds(r) /\ req[r].serial = s
    /\ \A ra, rb \in Request :
         Holds(ra) /\ Holds(rb) /\ req[ra].serial = req[rb].serial => ra = rb

LEMMA InitIInv == Init => IInv
<1> SUFFICES ASSUME Init PROVE IInv
  OBVIOUS
<1>1. \A r \in Request : Shaped(req[r]) /\ ~Holds(r)
  BY DEF Init, Idle, Shaped, Holds, Underway
<1>2. jobs = {} /\ DOMAIN req = Request
  BY DEF Init
<1> QED BY <1>1, <1>2, FS_EmptySet, ScopeAssumption DEF IInv

-----------------------------------------------------------------------------
\* A step of one request: it keeps what it was asked for.
Goes(r, next) ==
    /\ req' = [req EXCEPT ![r] = next]
    /\ Shaped(next)
    /\ next.route = req[r].route /\ next.serial = req[r].serial /\ next.package = req[r].package

\* What the handler computes does not change what the request names.
LEMMA OnwardKeeps ==
    ASSUME NEW q, Shaped(q), q.route # None
    PROVE  LET next == Onward(q)
           IN /\ Shaped(next) /\ next.state \in {"refused", "replied", "waiting"}
              /\ next.route = q.route /\ next.serial = q.serial /\ next.package = q.package
              /\ next.state = "waiting" => Guard(q)
<1>1. CASE Guard(q)
  BY <1>1 DEF Onward, Shaped, Idle
<1>2. CASE ~Guard(q)
  BY <1>2 DEF Onward, Shaped, Idle
<1> QED BY <1>1, <1>2

LEMMA EndedKeeps ==
    ASSUME NEW q, Shaped(q), NEW c, NEW done, NEW to, NEW trouble
    PROVE  LET over == Ended(q, c, done, to, trouble)
           IN /\ Shaped(over) /\ over.state = q.state
              /\ over.route = q.route /\ over.serial = q.serial /\ over.package = q.package
              /\ Guard(over) <=> Guard(q)
<1> DEFINE over == Ended(q, c, done, to, trouble)
<1>1. /\ DOMAIN over = DOMAIN q /\ over.state = q.state
      /\ over.route = q.route /\ over.serial = q.serial /\ over.package = q.package
  BY DEF Ended, Shaped, Idle
<1> HIDE DEF over
<1>2. Shaped(over)
  BY <1>1 DEF Shaped, IsJob
<1>3. Guard(over) <=> Guard(q)
  BY <1>1 DEF Guard
<1> QED BY <1>1, <1>2, <1>3 DEF over

\* A request that holds nothing, before and after, changes no device.
LEMMA OtherIInv ==
    ASSUME IInv, NEW r \in Request, NEW next, req' = [req EXCEPT ![r] = next], Shaped(next),
           ~Holds(r), ~(IsJob(next) /\ Underway(next)), jobs' = jobs
    PROVE  IInv'
<1>1. DOMAIN req' = Request /\ req'[r] = next /\ \A x \in Request \ {r} : req'[x] = req[x]
  BY DEF IInv
<1>2. \A x \in Request : Shaped(req[x])'
  BY <1>1 DEF IInv
<1>3. \A x \in Request : Holds(x)' <=> Holds(x)
  BY <1>1 DEF Holds
<1> QED BY <1>1, <1>2, <1>3 DEF IInv, Holds

\* An assessment that goes on keeps its device; one that ends gives it back.
LEMMA JobIInv ==
    ASSUME IInv, NEW r \in Request, NEW next, Goes(r, next), Holds(r),
           jobs' = IF Underway(next) THEN jobs ELSE jobs \ {req[r].serial}
    PROVE  IInv'
<1>1. /\ DOMAIN req' = Request /\ req'[r] = next
      /\ \A x \in Request \ {r} : req'[x] = req[x]
      /\ \A x \in Request : req'[x].serial = req[x].serial
  BY DEF IInv, Goes
<1>2. \A x \in Request : Shaped(req[x])'
  BY <1>1 DEF IInv, Goes
<1>3. /\ \A x \in Request \ {r} : Holds(x)' <=> Holds(x)
      /\ Holds(r)' <=> Underway(next)
  BY <1>1 DEF Holds, Goes, IsJob
<1>4. IsFiniteSet(jobs') /\ Cardinality(jobs') <= DastJobs
  <2>1. jobs' \subseteq jobs
    OBVIOUS
  <2>2. IsFiniteSet(jobs') /\ Cardinality(jobs') <= Cardinality(jobs)
    BY <2>1, FS_Subset DEF IInv
  <2>3. Cardinality(jobs) \in Nat /\ Cardinality(jobs') \in Nat
    BY <2>2, FS_CardinalityType DEF IInv
  <2> QED BY <2>2, <2>3, ScopeAssumption DEF IInv
<1>5. CASE Underway(next)
  BY <1>1, <1>2, <1>3, <1>4, <1>5 DEF IInv
<1>6. CASE ~Underway(next)
  BY <1>1, <1>2, <1>3, <1>4, <1>6 DEF IInv
<1> QED BY <1>5, <1>6

\* An assessment that is accepted finds its device free and a place left.
LEMMA AcceptIInv ==
    ASSUME IInv, NEW r \in Request, AcceptJob(r)
    PROVE  IInv'
<1> DEFINE s == req[r].serial
<1>1. req[r].state = "admitted" /\ IsJob(req[r]) /\ Shaped(req[r]) /\ ~Holds(r)
  BY DEF AcceptJob, IInv, Holds, Underway
<1>2. CASE s \in jobs \/ Cardinality(jobs) >= DastJobs
  <2> DEFINE next == [req[r] EXCEPT !.state = "refused", !.todo = <<>>]
  <2>1. req' = [req EXCEPT ![r] = next] /\ jobs' = jobs
    BY <1>2 DEF AcceptJob
  <2>2. Shaped(next) /\ ~Underway(next)
    BY <1>1 DEF Shaped, Idle, Underway
  <2> QED BY <1>1, <2>1, <2>2, OtherIInv
<1>3. CASE ~(s \in jobs \/ Cardinality(jobs) >= DastJobs)
  <2> DEFINE next == [req[r] EXCEPT !.state = "queued"]
  <2>1. req' = [req EXCEPT ![r] = next] /\ jobs' = jobs \cup {s}
    BY <1>3 DEF AcceptJob
  <2>2. Shaped(next) /\ next.serial = s /\ IsJob(next) /\ Underway(next)
    BY <1>1 DEF Shaped, Idle, Underway, IsJob
  <2>3. /\ DOMAIN req' = Request /\ req'[r] = next
        /\ \A x \in Request \ {r} : req'[x] = req[x]
        /\ \A x \in Request : req'[x].serial = req[x].serial
    BY <2>1, <2>2 DEF IInv
  <2>4. \A x \in Request : Shaped(req[x])'
    BY <2>2, <2>3 DEF IInv
  <2>5. Holds(r)' /\ \A x \in Request \ {r} : Holds(x)' <=> Holds(x)
    BY <2>2, <2>3 DEF Holds
  <2>6. IsFiniteSet(jobs') /\ Cardinality(jobs') <= DastJobs
    <3>1. IsFiniteSet(jobs') /\ Cardinality(jobs') = Cardinality(jobs) + 1
      BY <1>3, <2>1, FS_AddElement DEF IInv
    <3>2. Cardinality(jobs) \in Nat
      BY FS_CardinalityType DEF IInv
    <3> QED BY <1>3, <3>1, <3>2, ScopeAssumption
  <2> QED BY <1>3, <2>1, <2>3, <2>4, <2>5, <2>6 DEF IInv
<1> QED BY <1>2, <1>3

-----------------------------------------------------------------------------
LEMMA ArriveIInv ==
    ASSUME IInv, NEW r \in Request, Arrive(r)
    PROVE  IInv'
<1>1. PICK route \in Offers[r] :
       \E program \in Routes[route].programs,
          s \in IF "serial" \in Routes[route].names THEN Serial ELSE {None},
          p \in IF "package" \in Routes[route].names THEN Package ELSE {None} :
         LET q == [Idle EXCEPT !.route = route, !.serial = s, !.package = p, !.todo = program]
             admitted == Routes[route].via = "dast" => Guard(q)
         IN req' = [req EXCEPT ![r] =
                IF admitted THEN [q EXCEPT !.state = "admitted"]
                ELSE [q EXCEPT !.state = "refused", !.todo = <<>>]]
  BY DEF Arrive
<1>2. PICK program \in Routes[route].programs,
           s \in IF "serial" \in Routes[route].names THEN Serial ELSE {None},
           p \in IF "package" \in Routes[route].names THEN Package ELSE {None} :
         LET q == [Idle EXCEPT !.route = route, !.serial = s, !.package = p, !.todo = program]
             admitted == Routes[route].via = "dast" => Guard(q)
         IN req' = [req EXCEPT ![r] =
                IF admitted THEN [q EXCEPT !.state = "admitted"]
                ELSE [q EXCEPT !.state = "refused", !.todo = <<>>]]
  BY <1>1
<1> DEFINE q == [Idle EXCEPT !.route = route, !.serial = s, !.package = p, !.todo = program]
           admitted == Routes[route].via = "dast" => Guard(q)
           next == IF admitted THEN [q EXCEPT !.state = "admitted"]
                   ELSE [q EXCEPT !.state = "refused", !.todo = <<>>]
<1>3. req' = [req EXCEPT ![r] = next] /\ jobs' = jobs /\ req[r].state = "idle"
  BY <1>2 DEF Arrive
<1>4. route \in DOMAIN Routes /\ route # None
  BY ScopeAssumption
<1>5. s # None => "serial" \in Routes[route].names
  OBVIOUS
<1>6. /\ next.state \in {"admitted", "refused"} /\ next.route = route /\ next.serial = s
      /\ DOMAIN next = DOMAIN Idle
  <2> HIDE DEF admitted
  <2>1. CASE admitted
    BY <2>1 DEF Idle
  <2>2. CASE ~admitted
    BY <2>2 DEF Idle
  <2> QED BY <2>1, <2>2
<1> HIDE DEF next
<1>7. Shaped(next)
  BY <1>4, <1>5, <1>6 DEF Shaped
<1>8. ~Holds(r) /\ ~Underway(next)
  BY <1>3, <1>6 DEF Holds, Underway
<1> QED BY <1>3, <1>7, <1>8, OtherIInv

LEMMA StartIInv ==
    ASSUME IInv, NEW r \in Request, Start(r)
    PROVE  IInv'
<1> DEFINE next == Onward(req[r])
<1>1. /\ req[r].state = "admitted" /\ ~IsJob(req[r]) /\ Shaped(req[r])
      /\ req' = [req EXCEPT ![r] = next] /\ jobs' = jobs
  BY DEF Start, IInv
<1>2. Shaped(next) /\ next.route = req[r].route
  BY <1>1, OnwardKeeps DEF Shaped
<1>3. ~IsJob(next)
  BY <1>1, <1>2 DEF IsJob
<1> QED BY <1>1, <1>2, <1>3, OtherIInv DEF Holds

LEMMA BeginIInv ==
    ASSUME IInv, NEW r \in Request, Begin(r)
    PROVE  IInv'
<1> DEFINE next == Onward(req[r])
<1>1. /\ req[r].state = "queued" /\ Shaped(req[r]) /\ Holds(r)
      /\ req' = [req EXCEPT ![r] = next] /\ jobs' = Release(req[r], next)
  BY DEF Begin, IInv, Shaped, Holds, Underway
<1>2. Goes(r, next) /\ next.state \in {"refused", "replied", "waiting"}
  BY <1>1, OnwardKeeps DEF Shaped, Goes
<1>3. jobs' = IF Underway(next) THEN jobs ELSE jobs \ {req[r].serial}
  BY <1>1, <1>2 DEF Release, Underway, Holds
<1> QED BY <1>1, <1>2, <1>3, JobIInv

\* A command that ended, and what the handler does next.
LEMMA ReturnIInv ==
    ASSUME IInv, NEW r \in Request, Return(r)
    PROVE  IInv'
<1> DEFINE q == req[r]
           c == Head(q.todo)
<1>1. PICK done \in BOOLEAN : \E to \in IF done THEN c.done ELSE c.failed :
        LET next == Onward(Ended(q, c, done, to, Overlapped(r, q)))
        IN req' = [req EXCEPT ![r] = next] /\ jobs' = Release(q, next)
  BY DEF Return
<1>2. PICK to \in IF done THEN c.done ELSE c.failed :
        LET next == Onward(Ended(q, c, done, to, Overlapped(r, q)))
        IN req' = [req EXCEPT ![r] = next] /\ jobs' = Release(q, next)
  BY <1>1
<1> DEFINE over == Ended(q, c, done, to, Overlapped(r, q))
           next == Onward(over)
<1>3. q.state = "waiting" /\ Shaped(q) /\ q.route # None
  BY DEF Return, IInv, Shaped
<1>4. /\ Shaped(over) /\ over.route = q.route
      /\ over.serial = q.serial /\ over.package = q.package
  BY <1>3, EndedKeeps
<1> HIDE DEF over
<1>5. Goes(r, next) /\ next.state \in {"refused", "replied", "waiting"}
  BY <1>2, <1>3, <1>4, OnwardKeeps DEF Goes, over
<1>6. jobs' = Release(q, next)
  BY <1>2 DEF over
<1> HIDE DEF next
<1>7. CASE IsJob(q)
  <2>1. Holds(r) /\ jobs' = IF Underway(next) THEN jobs ELSE jobs \ {req[r].serial}
    BY <1>3, <1>5, <1>6, <1>7 DEF Release, Underway, Holds
  <2> QED BY <1>5, <2>1, JobIInv
<1>8. CASE ~IsJob(q)
  <2>1. ~Holds(r) /\ ~IsJob(next) /\ jobs' = jobs
    BY <1>5, <1>6, <1>8 DEF Release, Holds, Goes, IsJob
  <2> QED BY <1>5, <2>1, OtherIInv DEF Goes
<1> QED BY <1>7, <1>8

LEMMA JobTimeoutIInv ==
    ASSUME IInv, NEW r \in Request, JobTimeout(r)
    PROVE  IInv'
<1> DEFINE next == [req[r] EXCEPT !.state = "replied", !.todo = <<>>]
<1>1. /\ req' = [req EXCEPT ![r] = next] /\ jobs' = jobs \ {req[r].serial}
      /\ req[r].state = "waiting" /\ IsJob(req[r]) /\ Shaped(req[r])
  BY DEF JobTimeout, IInv
<1>2. Goes(r, next) /\ ~Underway(next)
  BY <1>1 DEF Goes, Shaped, Idle, Underway, IsJob
<1>3. Holds(r)
  BY <1>1 DEF Holds, Underway
<1> HIDE DEF next
<1> QED BY <1>1, <1>2, <1>3, JobIInv

LEMMA NextIInv == IInv /\ [Next]_vars => IInv'
<1> SUFFICES ASSUME IInv, [Next]_vars PROVE IInv'
  OBVIOUS
<1>1. CASE UNCHANGED <<req, jobs>>
  BY <1>1 DEF IInv, Holds
<1>2. ASSUME NEW r \in Request, Arrive(r) \/ Step(r) \/ JobTimeout(r) PROVE IInv'
  BY <1>2, ArriveIInv, StartIInv, AcceptIInv, BeginIInv, ReturnIInv, JobTimeoutIInv DEF Step
<1>3. ASSUME NEW p \in Policies, SaveScope(p) PROVE IInv'
  BY <1>1, <1>3 DEF SaveScope
<1>4. CASE Expire
  BY <1>1, <1>4 DEF Expire
<1> QED BY <1>1, <1>2, <1>3, <1>4 DEF Next, vars

LEMMA Invariance == Spec => []IInv
  BY InitIInv, NextIInv, PTL DEF Spec

\* DAST_JOBS holds exactly the devices of the assessments under way, each once
\* and within the limit, for every number of requests and whatever they run
\* (trigger_dast_fuzzer, run_dast_background_task).
THEOREM JobSlotsAreExact == Spec => []JobSlotExact
<1>1. IInv => JobSlotExact
  BY DEF IInv, JobSlotExact, Holds
<1> QED BY <1>1, Invariance, PTL

-----------------------------------------------------------------------------
\* A route that needs "connect" names no device, so that whoever names one is
\* checked against the devices of the policy.
Checked(route) == "connect" \in route.needs => "serial" \notin route.names

LEMMA RouteChecked ==
    ASSUME NEW via, NEW needs, NEW names, NEW programs,
           "connect" \notin needs \/ "serial" \notin names
    PROVE  Checked(Route(via, needs, names, programs))
  BY DEF Checked, Route

\* A dynamic assessment asks for the actions of its parts, and connects nothing.
LEMMA JobChecked ==
    ASSUME NEW parts PROVE Checked(trigger_dast_fuzzer(parts))
<1>1. ASSUME NEW part \in DOMAIN NeededFor PROVE NeededFor[part] # "connect"
  BY <1>1 DEF NeededFor
<1>2. "connect" \notin {"fuzz"} \cup {NeededFor[p] : p \in parts \cap DOMAIN NeededFor}
  BY <1>1
<1> QED BY <1>2, RouteChecked DEF trigger_dast_fuzzer

\* The routes one by one: those on the host, then those on a device.
LEMMA ConnectOnHost ==
    ASSUME NEW name \in DOMAIN Routes PROVE Checked(Routes[name])
<1>1. \A route \in {
          get_dast_devices, get_preflight, connect_dast_device,
          get_dast_wireless_mdns, pair_dast_wireless, connect_dast_wireless,
          disconnect_dast_wireless, prepare_dast_ca_cert} : Checked(route)
  BY RouteChecked DEF OnHost, OnDevice, OnPackage,
         get_dast_devices, get_preflight, connect_dast_device,
         get_dast_wireless_mdns, pair_dast_wireless, connect_dast_wireless,
         disconnect_dast_wireless, prepare_dast_ca_cert
<1>2. \A route \in {
          get_frida_status, restart_dast_root, install_dast_apk,
          launch_dast_activity, dispatch_dast_deeplink, execute_adb_command,
          get_dast_logcat, capture_dast_screenshot, audit_dast_storage,
          audit_dast_providers} : Checked(route)
  BY RouteChecked DEF OnHost, OnDevice, OnPackage,
         get_frida_status, restart_dast_root, install_dast_apk, launch_dast_activity,
         dispatch_dast_deeplink, execute_adb_command, get_dast_logcat,
         capture_dast_screenshot, audit_dast_storage, audit_dast_providers
<1>3. \A route \in {
          audit_dast_deeplinks, audit_dast_memory, crawl_dast_ui, get_dast_sockets,
          dump_dast_inspector, get_dast_settings, put_dast_setting,
          delete_dast_setting, setup_dast_proxy, clear_dast_proxy} : Checked(route)
  BY RouteChecked DEF OnHost, OnDevice, OnPackage,
         audit_dast_deeplinks, audit_dast_memory, crawl_dast_ui, get_dast_sockets,
         dump_dast_inspector, get_dast_settings, put_dast_setting,
         delete_dast_setting, setup_dast_proxy, clear_dast_proxy
<1>4. \A route \in {
          get_dast_packages, get_dast_package_info, execute_dast_package_action,
          pull_dast_package_apk, list_dast_filesystem, get_dast_clipboard,
          set_dast_clipboard, get_dast_device_posture, install_dast_ca_cert,
          get_dast_memory_procs} : Checked(route)
  BY RouteChecked DEF OnHost, OnDevice, OnPackage,
         get_dast_packages, get_dast_package_info, execute_dast_package_action,
         pull_dast_package_apk, list_dast_filesystem, get_dast_clipboard,
         set_dast_clipboard, get_dast_device_posture, install_dast_ca_cert,
         get_dast_memory_procs
<1>5. \A route \in {
          list_dast_forwards, create_dast_forward, remove_dast_forward,
          send_custom_intent, get_device_metrics, run_shell_command, list_files,
          console_list_packages, console_device_info, list_processes} : Checked(route)
  BY RouteChecked DEF OnHost, OnDevice, OnPackage,
         list_dast_forwards, create_dast_forward, remove_dast_forward,
         send_custom_intent, get_device_metrics, run_shell_command, list_files,
         console_list_packages, console_device_info, list_processes
<1>6. \A route \in {
          get_device_settings} : Checked(route)
  BY RouteChecked DEF OnHost, OnDevice, OnPackage,
         get_device_settings
<1> QED BY <1>1, <1>2, <1>3, <1>4, <1>5, <1>6, JobChecked DEF Routes

\* A request whose command starts has just passed the guard, on what it named.
LEMMA IssueGuarded ==
    ASSUME IInv, [Next]_vars, NEW r \in Request, Issues(r)
    PROVE  Guard(req[r]) /\ req[r].route \in DOMAIN Routes
<1>1. req'[r].state = "waiting" /\ req'[r] # req[r] /\ DOMAIN req = Request
  BY DEF Issues, IInv
<1>2. PICK x \in Request : Arrive(x) \/ Step(x) \/ JobTimeout(x)
  BY <1>1 DEF Next, vars, SaveScope, Expire
<1>3. x = r
  <2>1. req' = [req EXCEPT ![x] = req'[x]]
    BY <1>1, <1>2 DEF Arrive, Step, Start, AcceptJob, Begin, Return, JobTimeout
  <2> QED BY <1>1, <2>1
<1>4. Shaped(req[r])
  BY DEF IInv
<1>5. CASE Arrive(r)
  <2>1. req'[r].state \in {"admitted", "refused"}
    BY <1>1, <1>5 DEF Arrive, Idle
  <2> QED BY <1>1, <2>1
<1>6. CASE Start(r) \/ Begin(r)
  <2>1. req'[r] = Onward(req[r]) /\ req[r].route # None
    BY <1>1, <1>4, <1>6 DEF Start, Begin, Shaped
  <2> QED BY <1>1, <1>4, <2>1, OnwardKeeps DEF Shaped
<1>7. CASE AcceptJob(r)
  <2>1. req'[r].state \in {"queued", "refused"}
    BY <1>1, <1>4, <1>7 DEF AcceptJob, Shaped, Idle
  <2> QED BY <1>1, <2>1
<1>8. CASE Return(r)
  <2> DEFINE q == req[r]
             c == Head(q.todo)
  <2>1. PICK done \in BOOLEAN : \E to \in IF done THEN c.done ELSE c.failed :
          LET next == Onward(Ended(q, c, done, to, Overlapped(r, q)))
          IN req' = [req EXCEPT ![r] = next]
    BY <1>8 DEF Return
  <2>2. PICK to \in IF done THEN c.done ELSE c.failed :
          LET next == Onward(Ended(q, c, done, to, Overlapped(r, q)))
          IN req' = [req EXCEPT ![r] = next]
    BY <2>1
  <2> DEFINE over == Ended(q, c, done, to, Overlapped(r, q))
  <2>3. q.route # None
    BY <1>4, <1>8 DEF Return, Shaped
  <2>4. Shaped(over) /\ over.route = q.route /\ (Guard(over) <=> Guard(q))
    BY <1>4, EndedKeeps
  <2>5. req'[r] = Onward(over)
    BY <1>1, <2>2
  <2> HIDE DEF over
  <2>6. Guard(over)
    BY <1>1, <2>3, <2>4, <2>5, OnwardKeeps
  <2> QED BY <1>4, <2>3, <2>4, <2>6 DEF Shaped
<1>9. CASE JobTimeout(r)
  <2>1. req'[r].state = "replied"
    BY <1>1, <1>4, <1>9 DEF JobTimeout, Shaped, Idle
  <2> QED BY <1>1, <2>1
<1> QED BY <1>2, <1>3, <1>5, <1>6, <1>7, <1>8, <1>9 DEF Step

\* What the guard looks at, action by action, is what a command stands for.
LEMMA GuardCovers ==
    ASSUME NEW q, Shaped(q), q.route \in DOMAIN Routes, Guard(q)
    PROVE  /\ live
           /\ q.serial # None => q.serial \in Allowed /\
                (Routes[q.route].needs # {} => q.serial \in policy.devices)
           /\ Routes[q.route].needs \subseteq policy.actions
           /\ Routes[q.route].needs \cap PackageBound # {} => q.package \in policy.packages
<1>1. \A action \in Routes[q.route].needs :
        check_action(policy, action, q.serial, q.package)
  BY DEF Guard
<1>2. ASSUME q.serial # None, NEW action \in Routes[q.route].needs
      PROVE  q.serial \in policy.devices
  <2>1. action # "connect"
    BY <1>2, ConnectOnHost DEF Shaped, Checked
  <2> QED BY <1>1, <1>2, <2>1 DEF check_action
<1>3. ASSUME NEW action \in Routes[q.route].needs \cap PackageBound
      PROVE  q.package \in policy.packages
  <2>1. action \notin {"connect", "wireless", "cert"}
    BY <1>3 DEF PackageBound
  <2> QED BY <1>1, <1>3, <2>1 DEF check_action
<1>4. Routes[q.route].needs \subseteq policy.actions
  BY <1>1 DEF check_action
<1> QED BY <1>2, <1>3, <1>4 DEF Guard

\* No command starts unless its session, device, package and every action it
\* stands for are approved at that moment (the guards of the DAST routes, at
\* each await).
THEOREM NothingOutOfScope == Spec => CommandsInScope
<1> DEFINE InScope(r) ==
      LET q == req[r]
      IN /\ live
         /\ q.serial # None => q.serial \in Allowed /\
              (Routes[q.route].needs # {} => q.serial \in policy.devices)
         /\ Routes[q.route].needs \subseteq policy.actions
         /\ Routes[q.route].needs \cap PackageBound # {} => q.package \in policy.packages
<1>1. IInv /\ [Next]_vars => [\A r \in Request : Issues(r) => InScope(r)]_vars
  <2> SUFFICES ASSUME IInv, [Next]_vars, NEW r \in Request, Issues(r) PROVE InScope(r)
    OBVIOUS
  <2>1. Shaped(req[r])
    BY DEF IInv
  <2> QED BY <2>1, IssueGuarded, GuardCovers
<1> QED BY <1>1, Invariance, PTL DEF Spec, CommandsInScope

-----------------------------------------------------------------------------
\* The commands that change nothing requests share on the device.
Calm == {"read", "connect", "root", "install", "am", "shell", "clipboard", "package", "pair",
         "disconnect", "push", "chmod", "forward", "sleep"}
CalmCommand == [does : Calm, key : {NoKey}, done : SUBSET Nat, failed : SUBSET Nat]
Harmless == Seq(CalmCommand)

LEMMA Joins == \A p, q \in Harmless : p \o q \in Harmless
  BY DEF Harmless

LEMMA CalmPrograms ==
    /\ <<>> \in Harmless
    /\ \A does \in Calm :
         /\ Only(does) \in Harmless
         /\ \A rest \in Harmless :
              /\ Then(does, rest) \in Harmless /\ Need(does, rest) \in Harmless
              /\ Find(does, rest) \in Harmless /\ Until(does, rest) \in Harmless
    /\ \A rest \in Harmless : Either(rest) \in Harmless
<1>1. \A does \in Calm : \A done, failed \in SUBSET Nat :
        Command(does, NoKey, done, failed) \in CalmCommand
  BY DEF Command, CalmCommand
<1>2. ASSUME NEW c \in CalmCommand, NEW rest \in Harmless PROVE <<c>> \o rest \in Harmless
  BY DEF Harmless
<1>3. \A rest \in Harmless : Len(rest) + 1 \in Nat /\ Len(rest) + 2 \in Nat
  BY DEF Harmless
<1>4. <<>> \in Harmless
  BY DEF Harmless
<1>5. ASSUME NEW does \in Calm, NEW rest \in Harmless
      PROVE  /\ Then(does, rest) \in Harmless /\ Need(does, rest) \in Harmless
             /\ Find(does, rest) \in Harmless /\ Until(does, rest) \in Harmless
  <2>1. {1} \in SUBSET Nat /\ {Len(rest) + 1} \in SUBSET Nat /\ {1, Len(rest) + 1} \in SUBSET Nat
    BY <1>3
  <2> QED BY <1>1, <1>2, <2>1 DEF Then, Need, Find, Until
<1>6. ASSUME NEW rest \in Harmless PROVE Either(rest) \in Harmless
  <2>1. /\ {1, 2, Len(rest) + 2} \in SUBSET Nat /\ {1} \in SUBSET Nat
        /\ {1, Len(rest) + 1} \in SUBSET Nat /\ {Len(rest) + 1} \in SUBSET Nat
    BY <1>3
  <2>2. ASSUME NEW c \in CalmCommand, NEW d \in CalmCommand PROVE <<c, d>> \o rest \in Harmless
    BY DEF Harmless
  <2>3. "read" \in Calm
    BY DEF Calm
  <2> QED BY <1>1, <2>1, <2>2, <2>3 DEF Either
<1> QED BY <1>4, <1>5, <1>6 DEF Only

\* The methods one by one: those of ADBManager, then the rest.
LEMMA CalmMethods ==
    /\ {Find("read", discover_devices), Only("read"), connect_device, restart_root, install_apk,
        launch_activity, execute_shell, Find("read", get_logcat_dump), capture_screenshot,
        get_sockets, get_settings} \subseteq Harmless
    /\ {list_packages, get_package_info, execute_package_action, pull_apk, list_directory,
        get_clipboard, set_clipboard, get_device_posture, wireless_mdns_services, wireless_pair,
        wireless_connect, wireless_disconnect} \subseteq Harmless
    /\ {install_ca_certificate, get_package_memory_and_procs, list_forwards, create_forward,
        remove_forward, remove_all_forwards, dispatch_custom_intent, collect_snapshot, run_one,
        get_device_info} \subseteq Harmless
    /\ {exercise_component, exercise_deep_link, audit_providers, run_memory_audit, crawl_app,
        audit_all_storage, fuzz_activity_intents, fuzz_service_and_receiver_components,
        fuzz_deep_links} \subseteq Harmless
<1> USE CalmPrograms
<1>1. {"read", "connect", "root", "install", "am", "shell", "clipboard", "package", "pair",
       "disconnect", "push", "chmod", "forward", "sleep"} = Calm
  BY DEF Calm
<1>2. \A does \in {"read", "chmod", "connect"} : Only(does) \in Harmless /\ Until("read", Only(does)) \in Harmless
        /\ Find("read", Only(does)) \in Harmless /\ Then("root", Only(does)) \in Harmless
        /\ Then("read", Only(does)) \in Harmless /\ Need("push", Only(does)) \in Harmless
        /\ Until("read", Until("read", Only(does))) \in Harmless
  BY <1>1
<1>3. {Find("read", discover_devices), Only("read"), connect_device, restart_root, install_apk,
       launch_activity, execute_shell, Find("read", get_logcat_dump), capture_screenshot,
       get_sockets, get_settings} \subseteq Harmless
  BY <1>1, <1>2 DEF discover_devices, connect_device, restart_root, install_apk, launch_activity,
     execute_shell, get_logcat_dump, capture_screenshot, get_sockets, get_settings
<1>4. {list_packages, get_package_info, execute_package_action, pull_apk, list_directory,
       get_clipboard, set_clipboard, get_device_posture, wireless_mdns_services, wireless_pair,
       wireless_connect, wireless_disconnect} \subseteq Harmless
  BY <1>1 DEF list_packages, get_package_info, execute_package_action, pull_apk, list_directory,
     get_clipboard, set_clipboard, get_device_posture, wireless_mdns_services, wireless_pair,
     wireless_connect, wireless_disconnect
<1>5. {install_ca_certificate, get_package_memory_and_procs, list_forwards, create_forward,
       remove_forward, remove_all_forwards, dispatch_custom_intent, collect_snapshot, run_one,
       get_device_info} \subseteq Harmless
  BY <1>1, <1>2 DEF install_ca_certificate, get_package_memory_and_procs, list_forwards, create_forward,
     remove_forward, remove_all_forwards, dispatch_custom_intent, collect_snapshot, run_one,
     get_device_info
<1>6. {exercise_component, exercise_deep_link, audit_providers, fuzz_activity_intents,
       fuzz_service_and_receiver_components, fuzz_deep_links} \subseteq Harmless
  <2>1. get_logcat_dump \in Harmless /\ Then("sleep", get_logcat_dump) \in Harmless
    BY <1>1 DEF get_logcat_dump
  <2>2. get_logcat_dump \o Find("am", Then("sleep", get_logcat_dump)) \in Harmless
    BY <1>1, <2>1, Joins
  <2> QED BY <1>1, <2>2 DEF exercise_component, exercise_deep_link, audit_providers,
          audit_provider_uri, fuzz_activity_intents, fuzz_service_and_receiver_components, fuzz_deep_links
<1>7. {run_memory_audit, crawl_app, audit_all_storage} \subseteq Harmless
  <2>1. run_memory_audit \in Harmless
    BY <1>1 DEF run_memory_audit, get_process_pid, extract_memory_indicators
  <2>2. crawl_app \in Harmless
    <3>1. Need("read", Only("read")) \in Harmless /\ Only("read") \in Harmless
      BY <1>1
    <3> QED BY <3>1, Joins DEF crawl_app, dump_ui_hierarchy
  <2>3. audit_all_storage \in Harmless
    <3>1. Either(<<>>) \in Harmless /\ Either(Either(<<>>)) \in Harmless
          /\ Either(Either(Either(<<>>))) \in Harmless
      OBVIOUS
    <3>2. /\ audit_shared_preferences \in Harmless /\ audit_sqlite_databases \in Harmless
          /\ audit_cache_leakage \in Harmless
      BY <3>1 DEF audit_shared_preferences, audit_sqlite_databases, audit_cache_leakage, _run_su_cmd
    <3> QED BY <3>2, Joins DEF audit_all_storage
  <2> QED BY <2>1, <2>2, <2>3
<1> QED BY <1>3, <1>4, <1>5, <1>6, <1>7

\* A dynamic assessment is made of harmless parts.
LEMMA CalmJob == ASSUME NEW parts PROVE run_dast_background_task(parts) \in Harmless
<1> DEFINE part(name, program) == IF name \in parts THEN program ELSE <<>>
<1>1. \A name : \A program \in Harmless : part(name, program) \in Harmless
  BY CalmPrograms
<1> HIDE DEF part
<1> DEFINE p1 == part("apk_path", install_apk)
           p2 == p1 \o part("activities", fuzz_activity_intents)
           p3 == p2 \o part("services", fuzz_service_and_receiver_components)
           p4 == p3 \o part("deeplinks", fuzz_deep_links)
           p5 == p4 \o part("authorities", audit_providers)
           p6 == p5 \o part("audit_storage", audit_all_storage)
           p7 == p6 \o part("crawl_ui", crawl_app)
           p8 == p7 \o part("audit_memory", run_memory_audit)
<1>2. /\ install_apk \in Harmless /\ fuzz_activity_intents \in Harmless
      /\ fuzz_service_and_receiver_components \in Harmless /\ fuzz_deep_links \in Harmless
      /\ audit_providers \in Harmless /\ audit_all_storage \in Harmless
      /\ crawl_app \in Harmless /\ run_memory_audit \in Harmless
  BY CalmMethods
<1>3. p1 \in Harmless
  BY <1>1, <1>2
<1>4. p2 \in Harmless
  BY <1>1, <1>2, <1>3, Joins
<1>5. p3 \in Harmless
  BY <1>1, <1>2, <1>4, Joins
<1>6. p4 \in Harmless
  BY <1>1, <1>2, <1>5, Joins
<1>7. p5 \in Harmless
  BY <1>1, <1>2, <1>6, Joins
<1>8. p6 \in Harmless
  BY <1>1, <1>2, <1>7, Joins
<1>9. p7 \in Harmless
  BY <1>1, <1>2, <1>8, Joins
<1>10. p8 \in Harmless
  BY <1>1, <1>2, <1>9, Joins
<1>11. "read" \in Calm
  BY DEF Calm
<1> HIDE DEF p8
<1>12. Find("read", p8) \in Harmless
  BY <1>10, <1>11, CalmPrograms
<1> QED BY <1>12 DEF p8, part, run_dast_background_task
-----------------------------------------------------------------------------
\* The routes whose programs leave something on the device, or read it there.
Sharing == {"proxy_setup", "proxy_clear", "settings_put", "settings_delete", "inspector"}

LEMMA CalmRoute ==
    ASSUME NEW via, NEW needs, NEW names, NEW programs, programs \subseteq Harmless
    PROVE  Route(via, needs, names, programs).programs \subseteq Harmless
  BY DEF Route

\* The routes one by one: those on the host, then those on a device.
LEMMA CalmRoutes ==
    ASSUME NEW name \in DOMAIN Routes \ Sharing PROVE Routes[name].programs \subseteq Harmless
<1> USE CalmMethods, CalmPrograms, CalmRoute
<1>1. \A route \in {
          get_dast_devices, get_preflight, connect_dast_device, get_dast_wireless_mdns,
          pair_dast_wireless, connect_dast_wireless, disconnect_dast_wireless,
          prepare_dast_ca_cert} : route.programs \subseteq Harmless
  BY DEF get_dast_devices, get_preflight, connect_dast_device, get_dast_wireless_mdns,
         pair_dast_wireless, connect_dast_wireless, disconnect_dast_wireless,
         prepare_dast_ca_cert
<1>2. \A route \in {
          get_frida_status, restart_dast_root, install_dast_apk, launch_dast_activity,
          dispatch_dast_deeplink, execute_adb_command, get_dast_logcat,
          capture_dast_screenshot, audit_dast_storage, audit_dast_providers} : route.programs \subseteq Harmless
  BY DEF get_frida_status, restart_dast_root, install_dast_apk, launch_dast_activity,
         dispatch_dast_deeplink, execute_adb_command, get_dast_logcat,
         capture_dast_screenshot, audit_dast_storage, audit_dast_providers
<1>3. \A route \in {
          audit_dast_deeplinks, audit_dast_memory, crawl_dast_ui, get_dast_sockets,
          get_dast_settings} : route.programs \subseteq Harmless
  BY DEF audit_dast_deeplinks, audit_dast_memory, crawl_dast_ui, get_dast_sockets,
         get_dast_settings
<1>4. \A route \in {
          get_dast_packages, get_dast_package_info, execute_dast_package_action,
          pull_dast_package_apk, list_dast_filesystem, get_dast_clipboard,
          set_dast_clipboard, get_dast_device_posture, install_dast_ca_cert,
          get_dast_memory_procs} : route.programs \subseteq Harmless
  BY DEF get_dast_packages, get_dast_package_info, execute_dast_package_action,
         pull_dast_package_apk, list_dast_filesystem, get_dast_clipboard,
         set_dast_clipboard, get_dast_device_posture, install_dast_ca_cert,
         get_dast_memory_procs
<1>5. \A route \in {
          list_dast_forwards, create_dast_forward, remove_dast_forward, send_custom_intent,
          get_device_metrics, run_shell_command, list_files, console_list_packages,
          console_device_info, list_processes, get_device_settings} : route.programs \subseteq Harmless
  BY DEF list_dast_forwards, create_dast_forward, remove_dast_forward, send_custom_intent,
         get_device_metrics, run_shell_command, list_files, console_list_packages,
         console_device_info, list_processes, get_device_settings
<1>6. ASSUME NEW parts PROVE trigger_dast_fuzzer(parts).programs \subseteq Harmless
  BY CalmJob DEF trigger_dast_fuzzer
<1> QED BY <1>1, <1>2, <1>3, <1>4, <1>5, <1>6 DEF Routes, Sharing

\* What a concatenation is, element by element.
LEMMA Concatenated == ASSUME NEW S, NEW s \in Seq(S), NEW t \in Seq(S), NEW u \in Seq(S),
                   Len(u) = Len(s) + Len(t),
                   \A i \in 1 .. Len(s) : u[i] = s[i],
                   \A i \in 1 .. Len(t) : u[Len(s) + i] = t[i]
            PROVE s \o t = u
<1> DEFINE w == s \o t
<1>1. w \in Seq(S) /\ Len(w) = Len(u) /\ \A i \in 1 .. Len(s) + Len(t) :
        w[i] = IF i <= Len(s) THEN s[i] ELSE t[i - Len(s)]
  BY ConcatProperties
<1>2. Len(s) \in Nat /\ Len(t) \in Nat
  OBVIOUS
<1> HIDE DEF w
<1>3. ASSUME NEW i \in 1 .. Len(w) PROVE w[i] = u[i]
  <2>1. CASE i <= Len(s)
    BY <1>1, <1>2, <2>1
  <2>2. CASE i > Len(s)
    <3> DEFINE j == i - Len(s)
    <3>1. j \in 1 .. Len(t) /\ w[i] = t[j] /\ i = Len(s) + j
      BY <1>1, <1>2, <2>2
    <3> QED BY <3>1
  <2> QED BY <1>1, <1>2, <2>1, <2>2
<1> QED BY <1>1, <1>3, SeqEqual DEF w
\* Short programs, written out.
LEMMA Tuples == ASSUME NEW a, NEW b, NEW c, NEW d
            PROVE /\ <<a>> \o <<b>> = <<a, b>>
                  /\ <<a, b>> \o <<c>> = <<a, b, c>>
                  /\ <<a, b, c>> \o <<d>> = <<a, b, c, d>>
                  /\ <<a>> \o <<b, c>> = <<a, b, c>>
                  /\ <<a>> \o <<>> = <<a>>
<1> DEFINE S == {a, b, c, d}
<1>1. <<a>> \o <<b>> = <<a, b>>
  <2> DEFINE s == <<a>>
             t == <<b>>
             u == <<a, b>>
  <2>1. /\ s \in Seq(S) /\ t \in Seq(S) /\ u \in Seq(S)
        /\ Len(s) = 1 /\ Len(t) = 1 /\ Len(u) = 2
        /\ s[1] = a /\ t[1] = b
        /\ u[1] = a /\ u[2] = b
    OBVIOUS
  <2> HIDE DEF s, t, u, S
  <2>2. \A i \in 1 .. Len(s) : u[i] = s[i]
    BY <2>1
  <2>3. \A i \in 1 .. Len(t) : u[Len(s) + i] = t[i]
    BY <2>1
  <2>4. Len(u) = Len(s) + Len(t) /\ s \in Seq(S) /\ t \in Seq(S) /\ u \in Seq(S)
    BY <2>1
  <2>5. s \o t = u
    BY <2>2, <2>3, <2>4, Concatenated, Zenon
  <2> QED BY <2>5 DEF s, t, u
<1>2. <<a, b>> \o <<c>> = <<a, b, c>>
  <2> DEFINE s == <<a, b>>
             t == <<c>>
             u == <<a, b, c>>
  <2>1. /\ s \in Seq(S) /\ t \in Seq(S) /\ u \in Seq(S)
        /\ Len(s) = 2 /\ Len(t) = 1 /\ Len(u) = 3
        /\ s[1] = a /\ s[2] = b /\ t[1] = c
        /\ u[1] = a /\ u[2] = b /\ u[3] = c
    OBVIOUS
  <2> HIDE DEF s, t, u, S
  <2>2. \A i \in 1 .. Len(s) : u[i] = s[i]
    BY <2>1
  <2>3. \A i \in 1 .. Len(t) : u[Len(s) + i] = t[i]
    BY <2>1
  <2>4. Len(u) = Len(s) + Len(t) /\ s \in Seq(S) /\ t \in Seq(S) /\ u \in Seq(S)
    BY <2>1
  <2>5. s \o t = u
    BY <2>2, <2>3, <2>4, Concatenated, Zenon
  <2> QED BY <2>5 DEF s, t, u
<1>3. <<a, b, c>> \o <<d>> = <<a, b, c, d>>
  <2> DEFINE s == <<a, b, c>>
             t == <<d>>
             u == <<a, b, c, d>>
  <2>1. /\ s \in Seq(S) /\ t \in Seq(S) /\ u \in Seq(S)
        /\ Len(s) = 3 /\ Len(t) = 1 /\ Len(u) = 4
        /\ s[1] = a /\ s[2] = b /\ s[3] = c /\ t[1] = d
        /\ u[1] = a /\ u[2] = b /\ u[3] = c /\ u[4] = d
    OBVIOUS
  <2> HIDE DEF s, t, u, S
  <2>2. \A i \in 1 .. Len(s) : u[i] = s[i]
    BY <2>1
  <2>3. \A i \in 1 .. Len(t) : u[Len(s) + i] = t[i]
    BY <2>1
  <2>4. Len(u) = Len(s) + Len(t) /\ s \in Seq(S) /\ t \in Seq(S) /\ u \in Seq(S)
    BY <2>1
  <2>5. s \o t = u
    BY <2>2, <2>3, <2>4, Concatenated, Zenon
  <2> QED BY <2>5 DEF s, t, u
<1>4. <<a>> \o <<b, c>> = <<a, b, c>>
  <2> DEFINE s == <<a>>
             t == <<b, c>>
             u == <<a, b, c>>
  <2>1. /\ s \in Seq(S) /\ t \in Seq(S) /\ u \in Seq(S)
        /\ Len(s) = 1 /\ Len(t) = 2 /\ Len(u) = 3
        /\ s[1] = a /\ t[1] = b /\ t[2] = c
        /\ u[1] = a /\ u[2] = b /\ u[3] = c
    OBVIOUS
  <2> HIDE DEF s, t, u, S
  <2>2. \A i \in 1 .. Len(s) : u[i] = s[i]
    BY <2>1
  <2>3. \A i \in 1 .. Len(t) : u[Len(s) + i] = t[i]
    BY <2>1
  <2>4. Len(u) = Len(s) + Len(t) /\ s \in Seq(S) /\ t \in Seq(S) /\ u \in Seq(S)
    BY <2>1
  <2>5. s \o t = u
    BY <2>2, <2>3, <2>4, Concatenated, Zenon
  <2> QED BY <2>5 DEF s, t, u
<1>5. <<a>> \o <<>> = <<a>>
  <2> <<>> \in Seq(S) /\ <<a>> \in Seq(S)
    OBVIOUS
  <2> QED BY Concatenated
<1> QED BY <1>1, <1>2, <1>3, <1>4, <1>5

\* The routes that share, and what names their device.
puts(key) == Command("put", key, {1}, {1})
drops(key) == Command("drop", key, {1}, {1})
does(what) == Command(what, NoKey, {1}, {1})

LEMMA SharingPrograms ==
    /\ configure_proxy = <<puts("http_proxy"), puts("proxy_host"), puts("proxy_port")>>
    /\ clear_proxy = <<puts("http_proxy"), drops("http_proxy"), drops("proxy_host"), drops("proxy_port")>>
    /\ dump_view_hierarchy = <<does("dump"), does("cat"), does("rm")>>
    /\ \A key : Put(key) = <<puts(key)>> /\ Drop(key) = <<drops(key)>>
<1>1. \A key : Put(key) = <<puts(key)>> /\ Drop(key) = <<drops(key)>>
  BY DEF Put, Drop, puts, drops
<1> USE Tuples
<1>3. configure_proxy = <<puts("http_proxy"), puts("proxy_host"), puts("proxy_port")>>
  BY <1>1 DEF configure_proxy, put_setting
<1>4. clear_proxy = <<puts("http_proxy"), drops("http_proxy"), drops("proxy_host"), drops("proxy_port")>>
  <2> DEFINE a == puts("http_proxy")
             b == drops("http_proxy")
             c == drops("proxy_host")
             d == drops("proxy_port")
  <2>1. clear_proxy = <<a>> \o <<b>> \o <<c>> \o <<d>>
    BY <1>1 DEF clear_proxy, put_setting, delete_setting
  <2> HIDE DEF a, b, c, d
  <2>2. /\ <<a>> \o <<b>> = <<a, b>> /\ <<a, b>> \o <<c>> = <<a, b, c>>
        /\ <<a, b, c>> \o <<d>> = <<a, b, c, d>>
    OBVIOUS
  <2> QED BY <2>1, <2>2 DEF a, b, c, d
<1>5. dump_view_hierarchy = <<does("dump"), does("cat"), does("rm")>>
  <2> DEFINE a == does("dump")
             b == does("cat")
             c == does("rm")
  <2>1. dump_view_hierarchy = <<a>> \o (<<b>> \o (<<c>> \o <<>>))
    BY DEF dump_view_hierarchy, Then, Only, does
  <2> HIDE DEF a, b, c
  <2>2. <<c>> \o <<>> = <<c>> /\ <<b>> \o <<c>> = <<b, c>> /\ <<a>> \o <<b, c>> = <<a, b, c>>
    OBVIOUS
  <2> QED BY <2>1, <2>2 DEF a, b, c
<1> QED BY <1>1, <1>3, <1>4, <1>5

LEMMA SharingRoutes ==
    /\ Sharing \subseteq DOMAIN Routes
    /\ Routes["proxy_setup"].programs = {configure_proxy}
    /\ Routes["proxy_clear"].programs = {clear_proxy}
    /\ Routes["inspector"].programs = {dump_view_hierarchy}
    /\ Routes["settings_put"].programs = {put_setting(k) : k \in ProxyKeys}
    /\ Routes["settings_delete"].programs = {delete_setting(k) : k \in ProxyKeys}
    /\ \A name \in Sharing \cup {"fuzz", "fuzz_all"} :
         "serial" \in Routes[name].names /\ Routes[name].via = "dast"
<1>1. /\ Routes["proxy_setup"] = setup_dast_proxy /\ Routes["proxy_clear"] = clear_dast_proxy
      /\ Routes["inspector"] = dump_dast_inspector /\ Routes["settings_put"] = put_dast_setting
      /\ Routes["settings_delete"] = delete_dast_setting
      /\ Routes["fuzz"] = trigger_dast_fuzzer({}) /\ Routes["fuzz_all"] = trigger_dast_fuzzer(Parts)
  BY DEF Routes
<1>2. Sharing \subseteq DOMAIN Routes
  BY DEF Sharing, Routes
<1> QED BY <1>1, <1>2 DEF Sharing, Route, OnDevice, OnPackage, setup_dast_proxy, clear_dast_proxy,
        dump_dast_inspector, put_dast_setting, delete_dast_setting, trigger_dast_fuzzer
-----------------------------------------------------------------------------
\* What a request of a route may have left to do.
TodoOf(route) ==
    CASE route = "proxy_setup" ->
           {<<>>, <<puts("proxy_port")>>, <<puts("proxy_host"), puts("proxy_port")>>,
            <<puts("http_proxy"), puts("proxy_host"), puts("proxy_port")>>}
      [] route = "proxy_clear" ->
           {<<>>, <<drops("proxy_port")>>, <<drops("proxy_host"), drops("proxy_port")>>,
            <<drops("http_proxy"), drops("proxy_host"), drops("proxy_port")>>,
            <<puts("http_proxy"), drops("http_proxy"), drops("proxy_host"), drops("proxy_port")>>}
      [] route = "inspector" ->
           {<<>>, <<does("rm")>>, <<does("cat"), does("rm")>>,
            <<does("dump"), does("cat"), does("rm")>>}
      [] route = "settings_put" -> {<<>>} \cup {<<puts(key)>> : key \in ProxyKeys}
      [] route = "settings_delete" -> {<<>>} \cup {<<drops(key)>> : key \in ProxyKeys}
      [] OTHER -> Harmless

\* Each request by itself.
Typed(r, q) ==
    /\ q.state \in {"idle", "admitted", "queued", "waiting", "replied", "refused"}
    /\ q.route \in Offers[r] \cup {None}
    /\ q.state = "idle" <=> q.route = None
    /\ q.state = "idle" => q.seen = None
    /\ q.state = "waiting" => q.todo # <<>>
    /\ q.serial \in Serial \cup {None} /\ q.package \in Package \cup {None}
    /\ q.route \in Sharing => q.serial \in Serial
    /\ q.state = "admitted" /\ IsJob(q) => q.serial \in Allowed
    /\ q.seen \in Request \cup {None}
    /\ q.todo \in TodoOf(q.route)
    /\ q.state = "admitted" => q.todo \in Routes[q.route].programs

\* How far a change of the proxy has come: what it still has to set is all that
\* may be missing, what it still has to drop all that may be set.
Progress(q, set) ==
    IF q.route = "proxy_setup"
    THEN ProxyKeys \subseteq set \cup {q.todo[i].key : i \in 1 .. Len(q.todo)}
    ELSE set \subseteq {q.todo[i].key : i \in {j \in 1 .. Len(q.todo) : q.todo[j].does = "drop"}}

\* A request that may have left the proxy of s half set; it stays such a one.
SpoiledBy(q, s) ==
    /\ q.serial = s /\ SetsProxy(q)
    /\ q.state = "refused" \/ q.troubled \/ q.route \in {"settings_put", "settings_delete"}
Setter(q, s) == q.serial = s /\ SetsProxy(q) /\ q.state = "waiting"

\* Without such a one the changes under way have come as far as they say, and
\* when there is none the proxy is set in full or not at all.
ProxyInv(s) ==
    \/ \E r \in Request : SpoiledBy(req[r], s)
    \/ /\ \A r \in Request : Setter(req[r], s) => Progress(req[r], settings[s])
       /\ settings[s] \in {{}, ProxyKeys} \/ \E r \in Request : Setter(req[r], s)

\* Whose hierarchy file is on a device: of one that has still to remove it, or
\* that could not.
DumpedBy(q, s) ==
    /\ q.route = "inspector" /\ q.serial = s
    /\ \/ q.state = "refused" \/ q.troubled
       \/ q.state = "waiting" /\ q.todo # <<does("dump"), does("cat"), does("rm")>>
DumpInv(s) == dump[s] # None => DumpedBy(req[dump[s]], s)

\* Whose certificate file is on the host.
Pushing(q) ==
    /\ ~IsJob(q)
    /\ q.state = "refused" \/ (q.state = "waiting" /\ q.todo[1].does = "push")

\* What is left on the devices and on the host, and who explains it.
LInv ==
    /\ \A r \in Request : Typed(r, req[r])
    /\ \A r \in staged : r \in Request /\ Pushing(req[r])
    /\ settings \in [Serial -> SUBSET ProxyKeys] /\ dump \in [Serial -> Request \cup {None}]
    /\ \A s \in Serial : ProxyInv(s) /\ DumpInv(s)
    /\ jobs \subseteq Allowed
    /\ policy \in Policies \cup {NoPolicy} /\ live \in BOOLEAN

LEMMA InitLInv == Init => LInv
<1> SUFFICES ASSUME Init PROVE LInv
  OBVIOUS
<1>1. None \notin Sharing /\ None \notin {"proxy_setup", "proxy_clear", "inspector", "settings_put", "settings_delete"}
  BY SharingRoutes, ScopeAssumption DEF Sharing
<1>2. TodoOf(None) = Harmless
  BY <1>1 DEF TodoOf
<1>3. ASSUME NEW r \in Request PROVE Typed(r, req[r])
  <2>1. req[r] = Idle
    BY DEF Init
  <2>2. <<>> \in Harmless
    BY CalmPrograms
  <2> QED BY <1>1, <1>2, <2>1, <2>2 DEF Typed, Idle
<1>4. ASSUME NEW s \in Serial PROVE ProxyInv(s) /\ DumpInv(s)
  <2>1. settings[s] = {} /\ dump[s] = None
    BY DEF Init
  <2>2. \A r \in Request : ~Setter(req[r], s)
    BY DEF Init, Idle, Setter
  <2> QED BY <2>1, <2>2 DEF ProxyInv, DumpInv
<1>5. settings \in [Serial -> SUBSET ProxyKeys] /\ dump \in [Serial -> Request \cup {None}]
  BY DEF Init
<1>6. /\ staged = {} /\ jobs \subseteq Allowed
      /\ policy \in Policies \cup {NoPolicy} /\ live \in BOOLEAN
  BY DEF Init
<1> QED BY <1>3, <1>4, <1>5, <1>6 DEF LInv

-----------------------------------------------------------------------------
\* What a step of r may make of it: its route, its serial, what spoiled the
\* proxy and what refused it stay.
Keeps(q, next) ==
    q.route # None =>
      /\ next.route = q.route /\ next.serial = q.serial
      /\ (q.troubled => next.troubled) /\ (q.state = "refused" => next.state = "refused")

\* A step of one request, seen from the proxy of one device.
LEMMA ProxyStep ==
    ASSUME DOMAIN req = Request, NEW r \in Request, NEW next, req' = [req EXCEPT ![r] = next],
           Keeps(req[r], next), req[r].route = None => req[r].state = "idle" /\ ~SetsProxy(req[r]),
           NEW s \in Serial, ProxyInv(s),
           \/ ~(next.serial = s /\ SetsProxy(next)) /\ settings'[s] = settings[s]
           \/ SpoiledBy(next, s)
           \/ next.state # "waiting" /\ req[r].state # "waiting" /\ settings'[s] = settings[s]
           \/ /\ Setter(next, s) /\ req[r].state # "waiting" /\ settings'[s] = settings[s]
              /\ Progress(next, settings[s])
           \/ /\ \A x \in Request \ {r} : ~Setter(req[x], s)
              /\ Setter(req[r], s) /\ next.state \in {"waiting", "replied"}
              /\ Progress(next, settings'[s])
              /\ next.state = "replied" => settings'[s] \in {{}, ProxyKeys}
    PROVE  ProxyInv(s)'
<1>1. req'[r] = next /\ \A x \in Request \ {r} : req'[x] = req[x]
  OBVIOUS
<1>2. (\E x \in Request : SpoiledBy(req[x], s)) => \E x \in Request : SpoiledBy(req'[x], s)
  <2> SUFFICES ASSUME NEW x \in Request, SpoiledBy(req[x], s) PROVE SpoiledBy(req'[x], s)
    OBVIOUS
  <2>1. CASE x # r
    BY <1>1, <2>1
  <2>2. CASE x = r
    BY <1>1, <2>2 DEF SpoiledBy, Keeps, SetsProxy
  <2> QED BY <2>1, <2>2
<1>3. SpoiledBy(next, s) => \E x \in Request : SpoiledBy(req'[x], s)
  BY <1>1
<1>4. ASSUME ~(\E x \in Request : SpoiledBy(req[x], s)), ~SpoiledBy(next, s)
      PROVE  /\ \A x \in Request : Setter(req'[x], s) => Progress(req'[x], settings'[s])
             /\ settings'[s] \in {{}, ProxyKeys} \/ \E x \in Request : Setter(req'[x], s)
  <2>1. /\ \A x \in Request : Setter(req[x], s) => Progress(req[x], settings[s])
        /\ settings[s] \in {{}, ProxyKeys} \/ \E x \in Request : Setter(req[x], s)
    BY <1>4 DEF ProxyInv
  <2>2. ASSUME settings'[s] = settings[s], ~Setter(req[r], s), ~Setter(next, s)
        PROVE  /\ \A x \in Request : Setter(req'[x], s) => Progress(req'[x], settings'[s])
               /\ settings'[s] \in {{}, ProxyKeys} \/ \E x \in Request : Setter(req'[x], s)
    <3>1. \A x \in Request : Setter(req'[x], s) => req'[x] = req[x]
      BY <1>1, <2>2
    <3>2. \A x \in Request : Setter(req[x], s) => req'[x] = req[x]
      BY <1>1, <2>2
    <3>3. ASSUME NEW x \in Request, Setter(req'[x], s) PROVE Progress(req'[x], settings'[s])
      BY <2>1, <2>2, <3>1, <3>3
    <3>4. (\E x \in Request : Setter(req[x], s)) => \E x \in Request : Setter(req'[x], s)
      BY <3>2
    <3> QED BY <2>1, <2>2, <3>3, <3>4
  <2>3. CASE ~(next.serial = s /\ SetsProxy(next)) /\ settings'[s] = settings[s]
    <3>1. ~Setter(next, s) /\ ~Setter(req[r], s)
      BY <2>3 DEF Setter, Keeps, SetsProxy
    <3> QED BY <2>2, <2>3, <3>1
  <2>4. CASE next.state # "waiting" /\ req[r].state # "waiting" /\ settings'[s] = settings[s]
    BY <2>2, <2>4 DEF Setter
  <2>5. CASE /\ Setter(next, s) /\ req[r].state # "waiting" /\ settings'[s] = settings[s]
             /\ Progress(next, settings[s])
    <3>1. ASSUME NEW x \in Request, Setter(req'[x], s) PROVE Progress(req'[x], settings'[s])
      <4>1. CASE x = r
        BY <1>1, <2>5, <4>1
      <4>2. CASE x # r
        <5>1. req'[x] = req[x] /\ Setter(req[x], s)
          BY <1>1, <3>1, <4>2
        <5> QED BY <2>1, <2>5, <5>1
      <4> QED BY <4>1, <4>2
    <3> QED BY <1>1, <2>5, <3>1
  <2>6. CASE /\ \A x \in Request \ {r} : ~Setter(req[x], s)
             /\ Setter(req[r], s) /\ next.state \in {"waiting", "replied"}
             /\ Progress(next, settings'[s])
             /\ next.state = "replied" => settings'[s] \in {{}, ProxyKeys}
    <3>1. ASSUME NEW x \in Request, Setter(req'[x], s) PROVE Progress(req'[x], settings'[s])
      BY <1>1, <2>6, <3>1
    <3>2. next.state = "waiting" => Setter(next, s)
      BY <2>6 DEF Setter, Keeps, SetsProxy
    <3> QED BY <1>1, <2>6, <3>1, <3>2
  <2> QED BY <1>4, <2>3, <2>4, <2>5, <2>6
<1> QED BY <1>2, <1>3, <1>4 DEF ProxyInv

\* The same, seen from the hierarchy file.
LEMMA DumpStep ==
    ASSUME DOMAIN req = Request, NEW r \in Request, NEW next, req' = [req EXCEPT ![r] = next],
           Keeps(req[r], next), NEW s \in Serial, DumpInv(s), dump[s] \in Request \cup {None},
           \/ dump'[s] = None
           \/ dump'[s] = r /\ DumpedBy(next, s)
           \/ dump'[s] = dump[s] /\ (dump[s] = r /\ DumpedBy(req[r], s) => DumpedBy(next, s))
    PROVE  DumpInv(s)'
<1>1. req'[r] = next /\ \A x \in Request \ {r} : req'[x] = req[x]
  OBVIOUS
<1>2. CASE dump'[s] = None
  BY <1>2 DEF DumpInv
<1>3. CASE dump'[s] = r /\ DumpedBy(next, s)
  BY <1>1, <1>3 DEF DumpInv
<1>4. CASE dump'[s] = dump[s] /\ (dump[s] = r /\ DumpedBy(req[r], s) => DumpedBy(next, s)) /\ dump'[s] # None
  <2>1. DumpedBy(req[dump[s]], s) /\ dump[s] \in Request
    BY <1>4 DEF DumpInv
  <2>2. DumpedBy(req'[dump[s]], s)
    BY <1>1, <1>4, <2>1
  <2> QED BY <1>4, <2>2 DEF DumpInv
<1> QED BY <1>2, <1>3, <1>4

\* What a step of one request has to show.
LEMMA OneLInv ==
    ASSUME DOMAIN req = Request, LInv, NEW r \in Request, NEW next,
           req' = [req EXCEPT ![r] = next], Typed(r, next),
           staged' \subseteq staged \cup {r}, r \in staged' => Pushing(next),
           settings' \in [Serial -> SUBSET ProxyKeys], dump' \in [Serial -> Request \cup {None}],
           \A s \in Serial : ProxyInv(s)' /\ DumpInv(s)',
           jobs' \subseteq Allowed, UNCHANGED <<policy, live>>
    PROVE  LInv'
<1>1. req'[r] = next /\ \A x \in Request \ {r} : req'[x] = req[x]
  OBVIOUS
<1>2. \A x \in Request : Typed(x, req'[x])
  BY <1>1 DEF LInv
<1>3. \A x \in staged' : x \in Request /\ Pushing(req'[x])
  BY <1>1 DEF LInv
<1> QED BY <1>2, <1>3 DEF LInv

\* A step in which no command ends.
LEMMA StillLInv ==
    ASSUME DOMAIN req = Request, LInv, NEW r \in Request, NEW next,
           req' = [req EXCEPT ![r] = next], Typed(r, next), Keeps(req[r], next),
           staged' \subseteq staged \cup {r}, r \in staged' => Pushing(next),
           UNCHANGED <<settings, dump, policy, live>>, jobs' \subseteq Allowed,
           \/ ~SetsProxy(next)
           \/ next.state = "refused"
           \/ next.route \in {"settings_put", "settings_delete"}
           \/ req[r].state # "waiting" /\ next.state # "waiting"
           \/ /\ req[r].state # "waiting" /\ next.state = "waiting"
              /\ \A set \in SUBSET ProxyKeys : Progress(next, set),
           req[r].route = "inspector" /\ req[r].state = "waiting" => next.state = "refused"
    PROVE  LInv'
<1>1. /\ req[r].route = None => req[r].state = "idle" /\ ~SetsProxy(req[r])
      /\ Typed(r, req[r])
  <2>1. None \notin {"proxy_setup", "proxy_clear", "settings_put", "settings_delete"}
    BY SharingRoutes, ScopeAssumption DEF Sharing
  <2> QED BY <2>1 DEF LInv, Typed, SetsProxy
<1>2. ASSUME NEW s \in Serial PROVE ProxyInv(s)'
  <2>1. ProxyInv(s) /\ settings'[s] = settings[s] /\ settings[s] \in SUBSET ProxyKeys
    BY DEF LInv
  <2>2. CASE ~(next.serial = s /\ SetsProxy(next))
    BY <1>1, <2>1, <2>2, ProxyStep
  <2>3. CASE next.serial = s /\ SetsProxy(next)
    <3>1. \/ SpoiledBy(next, s)
          \/ next.state # "waiting" /\ req[r].state # "waiting" /\ settings'[s] = settings[s]
          \/ /\ Setter(next, s) /\ req[r].state # "waiting" /\ settings'[s] = settings[s]
             /\ Progress(next, settings[s])
      BY <2>1, <2>3 DEF SpoiledBy, Setter
    <3> QED BY <1>1, <2>1, <3>1, ProxyStep
  <2> QED BY <2>2, <2>3
<1>3. ASSUME NEW s \in Serial PROVE DumpInv(s)'
  <2>1. DumpInv(s) /\ dump[s] \in Request \cup {None} /\ dump'[s] = dump[s]
    BY DEF LInv
  <2>2. DumpedBy(req[r], s) => DumpedBy(next, s)
    <3>1. None # "inspector"
      BY SharingRoutes, ScopeAssumption DEF Sharing
    <3> QED BY <3>1 DEF DumpedBy, Keeps
  <2> QED BY <2>1, <2>2, DumpStep
<1> QED BY <1>2, <1>3, OneLInv DEF LInv

-----------------------------------------------------------------------------
\* What a route asks for is among what it may have left to do.
LEMMA WholeTodo ==
    ASSUME NEW route \in DOMAIN Routes
    PROVE  <<>> \in TodoOf(route) /\ Routes[route].programs \subseteq TodoOf(route)
<1>1. CASE route \notin Sharing
  <2>1. TodoOf(route) = Harmless
    BY <1>1 DEF TodoOf, Sharing
  <2> QED BY <1>1, <2>1, CalmRoutes, CalmPrograms
<1>2. CASE route \in {"proxy_setup", "proxy_clear", "inspector"}
  BY <1>2, SharingRoutes, SharingPrograms DEF TodoOf
<1>3. CASE route = "settings_put"
  BY <1>3, SharingRoutes, SharingPrograms DEF TodoOf, put_setting
<1>4. CASE route = "settings_delete"
  BY <1>4, SharingRoutes, SharingPrograms DEF TodoOf, delete_setting
<1> QED BY <1>1, <1>2, <1>3, <1>4 DEF Sharing

\* A change of the proxy that has not begun has everything before it.
LEMMA WholeProgress ==
    ASSUME NEW q, q.route \in {"proxy_setup", "proxy_clear"}, q.todo \in Routes[q.route].programs,
           NEW set \in SUBSET ProxyKeys
    PROVE  Progress(q, set)
<1>1. CASE q.route = "proxy_setup"
  <2>1. q.todo = <<puts("http_proxy"), puts("proxy_host"), puts("proxy_port")>>
    BY <1>1, SharingRoutes, SharingPrograms
  <2>2. /\ Len(q.todo) = 3 /\ q.todo[1].key = "http_proxy"
        /\ q.todo[2].key = "proxy_host" /\ q.todo[3].key = "proxy_port"
    BY <2>1 DEF puts, Command
  <2>3. ProxyKeys \subseteq {q.todo[i].key : i \in 1 .. Len(q.todo)}
    BY <2>2 DEF ProxyKeys
  <2> QED BY <1>1, <2>3 DEF Progress
<1>2. CASE q.route = "proxy_clear"
  <2>1. q.todo = <<puts("http_proxy"), drops("http_proxy"), drops("proxy_host"), drops("proxy_port")>>
    BY <1>2, SharingRoutes, SharingPrograms
  <2>2. /\ Len(q.todo) = 4
        /\ q.todo[2].key = "http_proxy" /\ q.todo[2].does = "drop"
        /\ q.todo[3].key = "proxy_host" /\ q.todo[3].does = "drop"
        /\ q.todo[4].key = "proxy_port" /\ q.todo[4].does = "drop"
    BY <2>1 DEF drops, Command
  <2>3. ProxyKeys \subseteq {q.todo[i].key : i \in {j \in 1 .. Len(q.todo) : q.todo[j].does = "drop"}}
    BY <2>2 DEF ProxyKeys
  <2> QED BY <1>2, <2>3 DEF Progress
<1> QED BY <1>1, <1>2

-----------------------------------------------------------------------------
\* What refuses a request, or lets it wait, keeps its shape.
LEMMA OnwardTyped ==
    ASSUME NEW r \in Request, NEW q, Shaped(q), q.route \in Offers[r], q.route # None,
           q.serial \in Serial \cup {None}, q.package \in Package \cup {None},
           q.route \in Sharing => q.serial \in Serial,
           q.seen \in Request \cup {None}, q.todo \in TodoOf(q.route)
    PROVE  /\ Typed(r, Onward(q))
           /\ Onward(q).state \in {"refused", "replied", "waiting"}
           /\ Onward(q).route = q.route /\ Onward(q).serial = q.serial
           /\ Onward(q).seen = q.seen
           /\ Onward(q).troubled <=> q.troubled
           /\ Onward(q).state # "refused" => Onward(q).todo = q.todo
           /\ Onward(q).state = "replied" => q.todo = <<>>
<1>1. <<>> \in TodoOf(q.route)
  BY WholeTodo, ScopeAssumption
<1>2. CASE Guard(q)
  <2>1. Onward(q) = [q EXCEPT !.state = IF q.todo = <<>> THEN "replied" ELSE "waiting"]
    BY <1>2 DEF Onward
  <2>2. /\ Onward(q).state = IF q.todo = <<>> THEN "replied" ELSE "waiting"
        /\ Onward(q).route = q.route /\ Onward(q).serial = q.serial /\ Onward(q).package = q.package
        /\ Onward(q).seen = q.seen /\ Onward(q).todo = q.todo
        /\ Onward(q).troubled <=> q.troubled
    BY <2>1 DEF Shaped, Idle
  <2> QED BY <2>2 DEF Typed
<1>3. CASE ~Guard(q)
  <2>1. Onward(q) = [q EXCEPT !.state = "refused", !.todo = <<>>]
    BY <1>3 DEF Onward
  <2>2. /\ Onward(q).state = "refused"
        /\ Onward(q).route = q.route /\ Onward(q).serial = q.serial /\ Onward(q).package = q.package
        /\ Onward(q).seen = q.seen /\ Onward(q).todo = <<>>
        /\ Onward(q).troubled <=> q.troubled
    BY <2>1 DEF Shaped, Idle
  <2> QED BY <1>1, <2>2 DEF Typed
<1> QED BY <1>2, <1>3

LEMMA StartLInv ==
    ASSUME IInv, LInv, NEW r \in Request, Start(r)
    PROVE  LInv'
<1> DEFINE q == req[r]
           next == Onward(q)
<1>1. /\ q.state = "admitted" /\ ~IsJob(q) /\ req' = [req EXCEPT ![r] = next]
      /\ UNCHANGED <<policy, live, settings, dump, jobs>>
      /\ staged' = IF next.state = "waiting" /\ Head(q.todo).does = "push"
                   THEN staged \cup {r} ELSE staged
  BY DEF Start
<1>2. Shaped(q) /\ Typed(r, q) /\ DOMAIN req = Request
  BY DEF IInv, LInv
<1>3. /\ q.route \in Offers[r] /\ q.route # None /\ q.seen \in Request \cup {None}
      /\ q.todo \in TodoOf(q.route) /\ q.todo \in Routes[q.route].programs
      /\ q.serial \in Serial \cup {None} /\ q.package \in Package \cup {None}
      /\ q.route \in Sharing => q.serial \in Serial
  BY <1>1, <1>2 DEF Typed
<1> HIDE DEF q
<1>4. /\ Typed(r, next) /\ next.state \in {"refused", "replied", "waiting"}
      /\ next.route = q.route /\ next.serial = q.serial
      /\ next.troubled <=> q.troubled
      /\ next.state # "refused" => next.todo = q.todo
  BY <1>2, <1>3, OnwardTyped
<1> HIDE DEF next
<1>5. Keeps(q, next)
  BY <1>1, <1>4 DEF Keeps
<1>6. r \notin staged
  <2>1. r \in staged => Pushing(req[r])
    BY DEF LInv
  <2> QED BY <1>1, <2>1 DEF Pushing, q
<1>7. staged' \subseteq staged \cup {r} /\ (r \in staged' => Pushing(next))
  BY <1>1, <1>4, <1>6 DEF Pushing, IsJob
<1>8. \/ ~SetsProxy(next)
      \/ next.state = "refused"
      \/ next.route \in {"settings_put", "settings_delete"}
      \/ req[r].state # "waiting" /\ next.state # "waiting"
      \/ /\ req[r].state # "waiting" /\ next.state = "waiting"
         /\ \A set \in SUBSET ProxyKeys : Progress(next, set)
  <2>1. ASSUME next.route \in {"proxy_setup", "proxy_clear"}, next.state = "waiting",
               NEW set \in SUBSET ProxyKeys
        PROVE  Progress(next, set)
    BY <1>3, <1>4, <2>1, WholeProgress
  <2> QED BY <1>1, <1>4, <2>1 DEF SetsProxy, q
<1>9. jobs' \subseteq Allowed
  BY <1>1 DEF LInv
<1> QED BY <1>1, <1>2, <1>4, <1>5, <1>7, <1>8, <1>9, StillLInv DEF q

LEMMA ArriveLInv ==
    ASSUME IInv, LInv, NEW r \in Request, Arrive(r)
    PROVE  LInv'
<1>1. PICK route \in Offers[r] :
       \E program \in Routes[route].programs,
          s \in IF "serial" \in Routes[route].names THEN Serial ELSE {None},
          p \in IF "package" \in Routes[route].names THEN Package ELSE {None} :
         LET q == [Idle EXCEPT !.route = route, !.serial = s, !.package = p, !.todo = program]
             admitted == Routes[route].via = "dast" => Guard(q)
         IN req' = [req EXCEPT ![r] =
                IF admitted THEN [q EXCEPT !.state = "admitted"]
                ELSE [q EXCEPT !.state = "refused", !.todo = <<>>]]
  BY DEF Arrive
<1>2. PICK program \in Routes[route].programs,
           s \in IF "serial" \in Routes[route].names THEN Serial ELSE {None},
           p \in IF "package" \in Routes[route].names THEN Package ELSE {None} :
         LET q == [Idle EXCEPT !.route = route, !.serial = s, !.package = p, !.todo = program]
             admitted == Routes[route].via = "dast" => Guard(q)
         IN req' = [req EXCEPT ![r] =
                IF admitted THEN [q EXCEPT !.state = "admitted"]
                ELSE [q EXCEPT !.state = "refused", !.todo = <<>>]]
  BY <1>1
<1> DEFINE q == [Idle EXCEPT !.route = route, !.serial = s, !.package = p, !.todo = program]
           admitted == Routes[route].via = "dast" => Guard(q)
           next == IF admitted THEN [q EXCEPT !.state = "admitted"]
                   ELSE [q EXCEPT !.state = "refused", !.todo = <<>>]
<1>3. /\ req' = [req EXCEPT ![r] = next] /\ req[r].state = "idle"
      /\ UNCHANGED <<policy, live, settings, dump, staged, jobs>>
  BY <1>2 DEF Arrive
<1>4. route \in DOMAIN Routes /\ route # None /\ None \notin Serial
  BY ScopeAssumption
<1>5. /\ q.route = route /\ q.serial = s
  BY DEF Idle
<1>6. /\ next.route = route /\ next.serial = s /\ next.package = p /\ next.seen = None
      /\ \/ next.state = "admitted" /\ next.todo = program /\ admitted
         \/ next.state = "refused" /\ next.todo = <<>>
  <2> HIDE DEF admitted
  <2>1. CASE admitted
    BY <2>1 DEF Idle
  <2>2. CASE ~admitted
    BY <2>2 DEF Idle
  <2> QED BY <2>1, <2>2
<1>7. next.state = "admitted" /\ IsJob(next) => s \in Allowed
  <2> HIDE DEF next, q
  <2>1. ASSUME route \in {"fuzz", "fuzz_all"}, admitted PROVE s \in Allowed
    <3>1. Routes[route].via = "dast" /\ "serial" \in Routes[route].names
      BY <2>1, SharingRoutes
    <3>2. s \in Serial /\ Guard(q)
      BY <2>1, <3>1
    <3> QED BY <1>4, <1>5, <3>2 DEF Guard
  <2> HIDE DEF admitted
  <2> QED BY <1>6, <2>1 DEF IsJob
<1> HIDE DEF next, q, admitted
<1>8. route \in Sharing => s \in Serial
  BY SharingRoutes
<1>9. /\ s \in Serial \cup {None} /\ p \in Package \cup {None}
  OBVIOUS
<1>10. next.todo \in TodoOf(route) /\ (next.state = "admitted" => next.todo \in Routes[route].programs)
  BY <1>4, <1>6, WholeTodo
<1>11. Typed(r, next)
  BY <1>4, <1>6, <1>7, <1>8, <1>9, <1>10 DEF Typed
<1>12. DOMAIN req = Request /\ Typed(r, req[r]) /\ (r \in staged => Pushing(req[r])) /\ jobs \subseteq Allowed
  BY DEF IInv, LInv
<1>13. Keeps(req[r], next)
  BY <1>3, <1>12 DEF Typed, Keeps
<1>14. staged' \subseteq staged \cup {r} /\ r \notin staged'
  BY <1>3, <1>12 DEF Pushing
<1> QED BY <1>3, <1>6, <1>11, <1>12, <1>13, <1>14, StillLInv

\* An assessment changes nothing that requests share.
LEMMA JobsShareNothing ==
    ASSUME NEW q, IsJob(q) PROVE ~SetsProxy(q) /\ q.route # "inspector"
  BY DEF IsJob, SetsProxy

LEMMA AcceptLInv ==
    ASSUME IInv, LInv, NEW r \in Request, AcceptJob(r)
    PROVE  LInv'
<1> DEFINE q == req[r]
<1>1. /\ q.state = "admitted" /\ IsJob(q) /\ UNCHANGED <<policy, live, settings, dump, staged>>
      /\ Shaped(q) /\ Typed(r, q) /\ DOMAIN req = Request /\ jobs \subseteq Allowed
      /\ r \in staged => Pushing(q)
  BY DEF AcceptJob, IInv, LInv
<1>2. q.serial \in Allowed /\ r \notin staged /\ q.route # None /\ q.route \in DOMAIN Routes
  BY <1>1, ScopeAssumption DEF Typed, Pushing, Shaped
<1>3. PICK next : /\ req' = [req EXCEPT ![r] = next]
                  /\ \/ next = [q EXCEPT !.state = "refused", !.todo = <<>>] /\ jobs' = jobs
                     \/ next = [q EXCEPT !.state = "queued"] /\ jobs' = jobs \cup {q.serial}
  BY DEF AcceptJob
<1> HIDE DEF q
<1>4. /\ next.route = q.route /\ next.serial = q.serial /\ next.package = q.package
      /\ next.seen = q.seen /\ (next.troubled <=> q.troubled)
      /\ next.state \in {"refused", "queued"} /\ next.todo \in {q.todo, <<>>}
  BY <1>1, <1>3 DEF Shaped, Idle
<1>5. jobs' \subseteq Allowed
  BY <1>1, <1>2, <1>3
<1>6. Typed(r, next)
  BY <1>1, <1>2, <1>4, WholeTodo DEF Typed
<1>7. Keeps(q, next) /\ ~SetsProxy(next) /\ q.route # "inspector"
  BY <1>1, <1>4, JobsShareNothing DEF Keeps, SetsProxy
<1>8. staged' \subseteq staged \cup {r} /\ r \notin staged'
  BY <1>1, <1>2
<1> QED BY <1>1, <1>3, <1>5, <1>6, <1>7, <1>8, StillLInv DEF q

LEMMA BeginLInv ==
    ASSUME IInv, LInv, NEW r \in Request, Begin(r)
    PROVE  LInv'
<1> DEFINE q == req[r]
           next == Onward(q)
<1>1. /\ q.state = "queued" /\ UNCHANGED <<policy, live, settings, dump, staged>>
      /\ req' = [req EXCEPT ![r] = next] /\ jobs' = Release(q, next)
      /\ Shaped(q) /\ Typed(r, q) /\ DOMAIN req = Request /\ jobs \subseteq Allowed
      /\ r \in staged => Pushing(q)
  BY DEF Begin, IInv, LInv
<1>2. IsJob(q) /\ r \notin staged /\ jobs' \subseteq Allowed
  BY <1>1 DEF Shaped, Pushing, Release
<1> HIDE DEF q
<1>3. /\ Typed(r, next) /\ next.route = q.route /\ next.serial = q.serial
      /\ next.troubled <=> q.troubled
  BY <1>1, OnwardTyped DEF Typed
<1> HIDE DEF next
<1>4. Keeps(q, next) /\ ~SetsProxy(next) /\ q.route # "inspector"
  BY <1>1, <1>2, <1>3, JobsShareNothing DEF Keeps, SetsProxy
<1>5. staged' \subseteq staged \cup {r} /\ r \notin staged'
  BY <1>1, <1>2
<1> QED BY <1>1, <1>2, <1>3, <1>4, <1>5, StillLInv DEF q

LEMMA TimeoutLInv ==
    ASSUME IInv, LInv, NEW r \in Request, JobTimeout(r)
    PROVE  LInv'
<1> DEFINE q == req[r]
           next == [q EXCEPT !.state = "replied", !.todo = <<>>]
<1>1. /\ q.state = "waiting" /\ IsJob(q) /\ UNCHANGED <<policy, live, settings, dump, staged>>
      /\ req' = [req EXCEPT ![r] = next] /\ jobs' = jobs \ {q.serial}
      /\ Shaped(q) /\ Typed(r, q) /\ DOMAIN req = Request /\ jobs \subseteq Allowed
      /\ r \in staged => Pushing(q)
  BY DEF JobTimeout, IInv, LInv
<1> HIDE DEF q
<1>2. /\ next.state = "replied" /\ next.todo = <<>> /\ next.route = q.route
      /\ next.serial = q.serial /\ next.package = q.package /\ next.seen = q.seen
      /\ next.troubled <=> q.troubled
  BY <1>1 DEF Shaped, Idle
<1> HIDE DEF next
<1>3. q.route \in DOMAIN Routes
  BY <1>1 DEF Shaped
<1>4. Typed(r, next)
  BY <1>1, <1>2, <1>3, WholeTodo DEF Typed
<1>5. Keeps(q, next) /\ ~SetsProxy(next) /\ q.route # "inspector"
  BY <1>1, <1>2, JobsShareNothing DEF Keeps, SetsProxy
<1>6. r \notin staged
  BY <1>1 DEF Pushing
<1> QED BY <1>1, <1>2, <1>4, <1>5, <1>6, StillLInv DEF q

-----------------------------------------------------------------------------
\* Short programs after their first command.
LEMMA Rests ==
    ASSUME NEW a, NEW b, NEW c, NEW d
    PROVE  /\ Head(<<a>>) = a /\ Tail(<<a>>) = <<>>
           /\ Head(<<a, b>>) = a /\ Tail(<<a, b>>) = <<b>>
           /\ Head(<<a, b, c>>) = a /\ Tail(<<a, b, c>>) = <<b, c>>
           /\ Head(<<a, b, c, d>>) = a /\ Tail(<<a, b, c, d>>) = <<b, c, d>>
           /\ <<a>> # <<>> /\ <<a>> # <<a, b, c>> /\ <<b, c>> # <<a, b, c>> /\ <<a, b>> # <<>>
<1>1. Tail(<<a>>) = <<>>
  OBVIOUS
<1>2. Tail(<<a, b>>) = <<b>>
  OBVIOUS
<1>3. Tail(<<a, b, c>>) = <<b, c>>
  OBVIOUS
<1>4. Tail(<<a, b, c, d>>) = <<b, c, d>>
  OBVIOUS
<1>5. Head(<<a>>) = a /\ Head(<<a, b>>) = a /\ Head(<<a, b, c>>) = a /\ Head(<<a, b, c, d>>) = a
  OBVIOUS
<1>6. <<a>> # <<>> /\ <<a>> # <<a, b, c>> /\ <<b, c>> # <<a, b, c>> /\ <<a, b>> # <<>>
  OBVIOUS
<1> QED BY <1>1, <1>2, <1>3, <1>4, <1>5, <1>6

\* What commands requests share take one program further, whatever becomes of
\* them.
Single(c) ==
    /\ c.done = {1} /\ c.failed = {1}
    /\ c.does \in {"put", "drop"} => c.key \in ProxyKeys

LEMMA SharingCommands ==
    /\ \A key \in {"http_proxy", "proxy_host", "proxy_port"} : Single(puts(key)) /\ Single(drops(key))
    /\ \A what \in {"dump", "cat", "rm"} : Single(does(what))
    /\ \A key : puts(key).does = "put" /\ drops(key).does = "drop"
                /\ puts(key).key = key /\ drops(key).key = key
    /\ \A what : does(what).does = what
  BY DEF puts, drops, does, Command, Single, ProxyKeys


LEMMA SharingSteps ==
    ASSUME NEW route \in Sharing, NEW todo \in TodoOf(route), todo # <<>>
    PROVE  /\ Single(Head(todo)) /\ Tail(todo) \in TodoOf(route)
           /\ route = "inspector" => Head(todo).does \in {"dump", "cat", "rm"}
           /\ route # "inspector" => Head(todo).does \in {"put", "drop"}
           /\ route = "inspector" /\ Tail(todo) = <<>> => Head(todo).does = "rm"
           /\ route = "inspector" => Tail(todo) # <<does("dump"), does("cat"), does("rm")>>
<1> USE Rests, SharingCommands
<1>1. CASE route = "proxy_setup"
  <2>1. todo \in {<<puts("proxy_port")>>, <<puts("proxy_host"), puts("proxy_port")>>,
            <<puts("http_proxy"), puts("proxy_host"), puts("proxy_port")>>}
    BY <1>1 DEF TodoOf
  <2>2. TodoOf(route) = {<<>>, <<puts("proxy_port")>>, <<puts("proxy_host"), puts("proxy_port")>>,
            <<puts("http_proxy"), puts("proxy_host"), puts("proxy_port")>>}
    BY <1>1 DEF TodoOf
  <2>3. Head(todo) \in {puts(key) : key \in {"http_proxy", "proxy_host", "proxy_port"}}
    BY <2>1
  <2>4. Tail(todo) \in TodoOf(route)
    <3> DEFINE b == puts("proxy_host")
               c == puts("proxy_port")
    <3>1. Tail(<<c>>) = <<>> /\ Tail(<<b, c>>) = <<c>>
          /\ Tail(<<puts("http_proxy"), b, c>>) = <<b, c>>
      BY Rests
    <3> QED BY <2>1, <2>2, <3>1
  <2> QED BY <1>1, <2>3, <2>4
<1>2. CASE route = "proxy_clear"
  <2>1. todo \in {<<drops("proxy_port")>>, <<drops("proxy_host"), drops("proxy_port")>>,
            <<drops("http_proxy"), drops("proxy_host"), drops("proxy_port")>>,
            <<puts("http_proxy"), drops("http_proxy"), drops("proxy_host"), drops("proxy_port")>>}
    BY <1>2 DEF TodoOf
  <2>2. TodoOf(route) = {<<>>, <<drops("proxy_port")>>, <<drops("proxy_host"), drops("proxy_port")>>,
            <<drops("http_proxy"), drops("proxy_host"), drops("proxy_port")>>,
            <<puts("http_proxy"), drops("http_proxy"), drops("proxy_host"), drops("proxy_port")>>}
    BY <1>2 DEF TodoOf
  <2>3. Head(todo) \in {puts("http_proxy")} \cup
                         {drops(key) : key \in {"http_proxy", "proxy_host", "proxy_port"}}
    BY <2>1
  <2>4. Tail(todo) \in TodoOf(route)
    <3> DEFINE b == drops("http_proxy")
               c == drops("proxy_host")
               d == drops("proxy_port")
    <3>1. /\ Tail(<<d>>) = <<>> /\ Tail(<<c, d>>) = <<d>> /\ Tail(<<b, c, d>>) = <<c, d>>
          /\ Tail(<<puts("http_proxy"), b, c, d>>) = <<b, c, d>>
      BY Rests
    <3> QED BY <2>1, <2>2, <3>1
  <2> QED BY <1>2, <2>3, <2>4
<1>3. CASE route = "inspector"
  <2>1. todo \in {<<does("rm")>>, <<does("cat"), does("rm")>>, <<does("dump"), does("cat"), does("rm")>>}
    BY <1>3 DEF TodoOf
  <2>2. TodoOf(route) = {<<>>, <<does("rm")>>, <<does("cat"), does("rm")>>,
                         <<does("dump"), does("cat"), does("rm")>>}
    BY <1>3 DEF TodoOf
  <2>3. Head(todo) \in {does(what) : what \in {"dump", "cat", "rm"}}
    BY <2>1
  <2>4. /\ Tail(todo) \in {<<>>, <<does("rm")>>, <<does("cat"), does("rm")>>}
        /\ Tail(todo) = <<>> => Head(todo) = does("rm")
    <3> DEFINE b == does("cat")
               c == does("rm")
    <3>1. /\ Tail(<<c>>) = <<>> /\ Tail(<<b, c>>) = <<c>> /\ Tail(<<does("dump"), b, c>>) = <<b, c>>
          /\ Head(<<c>>) = c /\ <<c>> # <<>> /\ <<b, c>> # <<>>
      BY Rests
    <3> QED BY <2>1, <3>1
  <2>5. Tail(todo) # <<does("dump"), does("cat"), does("rm")>>
    BY <2>4
  <2> QED BY <1>3, <2>2, <2>3, <2>4, <2>5
<1>4. CASE route \in {"settings_put", "settings_delete"}
  <2>1. PICK key \in ProxyKeys : todo \in {<<puts(key)>>, <<drops(key)>>}
    BY <1>4 DEF TodoOf
  <2>2. Head(todo) \in {puts(key), drops(key)} /\ Tail(todo) = <<>> /\ <<>> \in TodoOf(route)
    BY <1>4, <2>1 DEF TodoOf
  <2>3. key \in {"http_proxy", "proxy_host", "proxy_port"}
    BY DEF ProxyKeys
  <2>4. Single(Head(todo)) /\ Head(todo).does \in {"put", "drop"}
    BY <2>2, <2>3
  <2>5. route # "inspector"
    BY <1>4
  <2> QED BY <2>2, <2>4, <2>5
<1> QED BY <1>1, <1>2, <1>3, <1>4 DEF Sharing

\* A program stays a sequence of commands, of one kind or the other.
LEMMA SharingRest ==
    ASSUME NEW route \in Sharing, NEW todo \in TodoOf(route), todo # <<>>
    PROVE  /\ SubSeq(todo, 2, Len(todo)) = Tail(todo) /\ Head(todo) = todo[1]
           /\ Len(todo) \in Nat /\ Len(Tail(todo)) = Len(todo) - 1
           /\ \A i \in 1 .. Len(Tail(todo)) : Tail(todo)[i] = todo[i + 1]
<1>1. PICK a, b, c, d : todo \in {<<a>>, <<a, b>>, <<a, b, c>>, <<a, b, c, d>>}
  BY Zenon DEF TodoOf, Sharing
<1> DEFINE S == {a, b, c, d}
<1>2. a \in S /\ b \in S /\ c \in S /\ d \in S
  OBVIOUS
<1> HIDE DEF S
<1>3. todo \in Seq(S)
  <2>1. <<a>> \in Seq(S)
    BY <1>2
  <2>2. <<a, b>> \in Seq(S)
    BY <1>2
  <2>3. <<a, b, c>> \in Seq(S)
    BY <1>2
  <2>4. <<a, b, c, d>> \in Seq(S)
    BY <1>2
  <2> QED BY <1>1, <2>1, <2>2, <2>3, <2>4, Zenon
<1> QED BY <1>3, TailIsSubSeq, HeadTailProperties

\* Of the other programs any command may be skipped, and some are.
LEMMA CalmSteps ==
    ASSUME NEW todo \in Harmless, todo # <<>>, NEW to \in Nat
    PROVE  /\ Head(todo) \in CalmCommand
           /\ SubSeq(todo, to + 1, Len(todo)) \in Harmless
<1>1. todo \in Seq(CalmCommand) /\ Len(todo) \in Nat /\ to + 1 \in Int /\ Len(todo) \in Int
  BY DEF Harmless
<1>2. \A i \in to + 1 .. Len(todo) : todo[i] \in CalmCommand
  BY <1>1
<1> QED BY <1>1, <1>2, SubSeqProperties DEF Harmless

\* A command that succeeds takes a change of the proxy as far as it says.
LEMMA ProgressStep ==
    ASSUME NEW q, NEW next, q.route \in {"proxy_setup", "proxy_clear"},
           q.todo \in TodoOf(q.route), q.todo # <<>>,
           next.route = q.route, next.todo = Tail(q.todo),
           NEW set \in SUBSET ProxyKeys, Progress(q, set), NEW after,
           after = IF Head(q.todo).does = "put" THEN set \cup {Head(q.todo).key}
                                                ELSE set \ {Head(q.todo).key}
    PROVE  Progress(next, after)
<1> DEFINE todo == q.todo
           rest == Tail(todo)
           c == Head(todo)
<1>1. q.route \in Sharing
  BY DEF Sharing
<1>2. /\ c = todo[1] /\ Len(todo) \in Nat /\ Len(rest) = Len(todo) - 1
      /\ \A i \in 1 .. Len(rest) : rest[i] = todo[i + 1]
  BY <1>1, SharingRest
<1>3. c.does \in {"put", "drop"}
  BY <1>1, SharingSteps
<1>4. ASSUME NEW j \in 1 .. Len(todo), j # 1
      PROVE  j - 1 \in 1 .. Len(rest) /\ rest[j - 1] = todo[j]
  BY <1>2, <1>4
<1>5. CASE q.route = "proxy_setup"
  <2>1. c.does = "put"
    <3>1. todo \in {<<puts("proxy_port")>>, <<puts("proxy_host"), puts("proxy_port")>>,
            <<puts("http_proxy"), puts("proxy_host"), puts("proxy_port")>>}
      BY <1>5 DEF TodoOf
    <3>2. c \in {puts(key) : key \in {"http_proxy", "proxy_host", "proxy_port"}}
      BY <3>1, Rests
    <3> QED BY <3>2, SharingCommands
  <2>2. ASSUME NEW key \in ProxyKeys, key \notin after
        PROVE  \E i \in 1 .. Len(rest) : rest[i].key = key
    <3>1. key \notin set /\ key # c.key
      BY <2>1, <2>2
    <3>2. PICK j \in 1 .. Len(todo) : todo[j].key = key
      BY <1>5, <3>1 DEF Progress
    <3>3. j # 1
      BY <1>2, <3>1, <3>2
    <3> QED BY <1>4, <3>2, <3>3
  <2>3. ProxyKeys \subseteq after \cup {rest[i].key : i \in 1 .. Len(rest)}
    BY <2>2
  <2> QED BY <1>5, <2>3 DEF Progress
<1>6. CASE q.route = "proxy_clear"
  <2> DEFINE gone(t) == {t[i].key : i \in {j \in 1 .. Len(t) : t[j].does = "drop"}}
  <2>1. CASE c.does = "put"
    <3>1. todo \in {<<drops("proxy_port")>>, <<drops("proxy_host"), drops("proxy_port")>>,
            <<drops("http_proxy"), drops("proxy_host"), drops("proxy_port")>>,
            <<puts("http_proxy"), drops("http_proxy"), drops("proxy_host"), drops("proxy_port")>>}
      BY <1>6 DEF TodoOf
    <3>2. drops("http_proxy").does # "put" /\ drops("proxy_host").does # "put"
          /\ drops("proxy_port").does # "put"
      BY SharingCommands
    <3>3. todo = <<puts("http_proxy"), drops("http_proxy"), drops("proxy_host"), drops("proxy_port")>>
      <4> DEFINE b == drops("http_proxy")
                 cc == drops("proxy_host")
                 d == drops("proxy_port")
      <4>1. Head(<<d>>) = d /\ Head(<<cc, d>>) = cc /\ Head(<<b, cc, d>>) = b
        BY Rests
      <4> QED BY <2>1, <3>1, <3>2, <4>1
    <3>4. /\ Len(todo) = 4
          /\ todo[2].key = "http_proxy" /\ todo[2].does = "drop"
          /\ todo[3].key = "proxy_host" /\ todo[3].does = "drop"
          /\ todo[4].key = "proxy_port" /\ todo[4].does = "drop"
      BY <3>3 DEF drops, Command
    <3>5. /\ rest[1] = todo[2] /\ rest[2] = todo[3] /\ rest[3] = todo[4]
          /\ 1 \in 1 .. Len(rest) /\ 2 \in 1 .. Len(rest) /\ 3 \in 1 .. Len(rest)
      BY <1>2, <3>4
    <3>6. ProxyKeys \subseteq gone(rest)
      BY <3>4, <3>5 DEF ProxyKeys
    <3>7. after \subseteq ProxyKeys
      BY <1>1, <2>1, SharingSteps DEF Single
    <3> QED BY <1>6, <3>6, <3>7 DEF Progress
  <2>2. CASE c.does = "drop"
    <3>1. ASSUME NEW key \in after
          PROVE  \E i \in 1 .. Len(rest) : rest[i].key = key /\ rest[i].does = "drop"
      <4>1. key \in set /\ key # c.key
        BY <2>2, <3>1
      <4>2. PICK j \in 1 .. Len(todo) : todo[j].key = key /\ todo[j].does = "drop"
        BY <1>6, <4>1 DEF Progress
      <4>3. j # 1
        BY <1>2, <4>1, <4>2
      <4> QED BY <1>4, <4>2, <4>3
    <3>2. after \subseteq gone(rest)
      BY <3>1
    <3> QED BY <1>6, <3>2 DEF Progress
  <2> QED BY <1>3, <2>1, <2>2
<1> QED BY <1>5, <1>6

\* What a command that ended makes of its request.
ReturnsTo(r, done, to, next) ==
    LET q == req[r]
        c == Head(q.todo)
        rest == SubSeq(q.todo, to + 1, Len(q.todo))
    IN /\ q.state = "waiting" /\ Shaped(q) /\ Typed(r, q) /\ q.todo # <<>>
       /\ done \in BOOLEAN /\ to \in IF done THEN c.done ELSE c.failed
       /\ c.does = "cat" /\ done => dump[q.serial] # None
       /\ IF done THEN Effect(r, c, q.serial) ELSE UNCHANGED <<settings, dump>>
       /\ req' = [req EXCEPT ![r] = next]
       /\ staged' = Unstaged(r, c, done, next)
       /\ jobs' \subseteq jobs /\ UNCHANGED <<policy, live>>
       /\ Typed(r, next) /\ next.state \in {"refused", "replied", "waiting"}
       /\ next.route = q.route /\ next.serial = q.serial
       /\ next.seen = IF c.does = "cat" /\ done THEN dump[q.serial] ELSE q.seen
       /\ next.troubled <=> q.troubled \/ ~done \/ Overlapped(r, q)
       /\ next.state # "refused" => next.todo = rest
       /\ next.state = "replied" => rest = <<>>

\* What a command does names what its route is for.
LEMMA Purpose ==
    ASSUME NEW route \in DOMAIN Routes, NEW todo \in TodoOf(route), todo # <<>>
    PROVE  /\ Head(todo).does \in {"put", "drop"} =>
                /\ route \in {"proxy_setup", "proxy_clear", "settings_put", "settings_delete"}
                /\ Head(todo).key \in ProxyKeys
           /\ Head(todo).does \in {"dump", "cat", "rm"} => route = "inspector"
           /\ route \notin Sharing => todo \in Harmless /\ Head(todo).does \in Calm
           /\ Head(todo).done \subseteq Nat /\ Head(todo).failed \subseteq Nat
<1>1. CASE route \in Sharing
  <2>1. /\ Single(Head(todo))
        /\ route = "inspector" => Head(todo).does \in {"dump", "cat", "rm"}
        /\ route # "inspector" => Head(todo).does \in {"put", "drop"}
    BY <1>1, SharingSteps
  <2> QED BY <1>1, <2>1 DEF Sharing, Single
<1>2. CASE route \notin Sharing
  <2>1. todo \in Harmless
    BY <1>2 DEF TodoOf, Sharing
  <2>2. Head(todo) \in CalmCommand
    BY <2>1, CalmSteps
  <2> QED BY <1>2, <2>1, <2>2 DEF CalmCommand, Calm
<1> QED BY <1>1, <1>2

\* What is left is what the route may have left.
LEMMA RestOfTodo ==
    ASSUME NEW route \in DOMAIN Routes, NEW todo \in TodoOf(route), todo # <<>>,
           NEW to \in Head(todo).done \cup Head(todo).failed
    PROVE  /\ SubSeq(todo, to + 1, Len(todo)) \in TodoOf(route)
           /\ route \in Sharing => SubSeq(todo, to + 1, Len(todo)) = Tail(todo)
<1>1. CASE route \in Sharing
  <2>1. Single(Head(todo)) /\ Tail(todo) \in TodoOf(route)
    BY <1>1, SharingSteps, Zenon
  <2>3. to = 1
    BY <2>1 DEF Single
  <2>2. SubSeq(todo, 2, Len(todo)) = Tail(todo)
    BY <1>1, SharingRest, Zenon
  <2>4. to + 1 = 2
    BY <2>3
  <2> QED BY <2>1, <2>2, <2>4
<1>2. CASE route \notin Sharing
  <2>1. TodoOf(route) = Harmless
    BY <1>2 DEF TodoOf, Sharing
  <2>2. to \in Nat
    BY Purpose
  <2> QED BY <1>2, <2>1, <2>2, CalmSteps
<1> QED BY <1>1, <1>2

LEMMA Returned ==
    ASSUME IInv, LInv, NEW r \in Request, Return(r)
    PROVE  \E done, to, next : ReturnsTo(r, done, to, next)
<1> DEFINE q == req[r]
           c == Head(q.todo)
<1>1. /\ q.state = "waiting" /\ Shaped(q) /\ Typed(r, q) /\ q.route # None /\ q.todo # <<>>
      /\ q.route \in DOMAIN Routes
  BY DEF Return, IInv, LInv, Shaped, Typed
<1>2. PICK done \in BOOLEAN : \E to \in IF done THEN c.done ELSE c.failed :
        LET next == Onward(Ended(q, c, done, to, Overlapped(r, q)))
        IN /\ c.does = "cat" /\ done => dump[q.serial] # None
           /\ IF done THEN Effect(r, c, q.serial) ELSE UNCHANGED <<settings, dump>>
           /\ req' = [req EXCEPT ![r] = next]
           /\ jobs' = Release(q, next)
           /\ staged' = Unstaged(r, c, done, next)
  BY DEF Return
<1>3. PICK to \in IF done THEN c.done ELSE c.failed :
        LET next == Onward(Ended(q, c, done, to, Overlapped(r, q)))
        IN /\ c.does = "cat" /\ done => dump[q.serial] # None
           /\ IF done THEN Effect(r, c, q.serial) ELSE UNCHANGED <<settings, dump>>
           /\ req' = [req EXCEPT ![r] = next]
           /\ jobs' = Release(q, next)
           /\ staged' = Unstaged(r, c, done, next)
  BY <1>2
<1> DEFINE over == Ended(q, c, done, to, Overlapped(r, q))
           next == Onward(over)
           rest == SubSeq(q.todo, to + 1, Len(q.todo))
<1>4. /\ over.state = q.state /\ over.route = q.route /\ over.serial = q.serial
      /\ over.package = q.package /\ Shaped(over)
  BY <1>1, EndedKeeps
<1>5. /\ over.todo = rest
      /\ over.seen = IF c.does = "cat" /\ done THEN dump[q.serial] ELSE q.seen
      /\ over.troubled <=> q.troubled \/ ~done \/ Overlapped(r, q)
  BY <1>1 DEF Ended, Shaped, Idle
<1>6. /\ c.does = "cat" /\ done => dump[q.serial] # None
      /\ IF done THEN Effect(r, c, q.serial) ELSE UNCHANGED <<settings, dump>>
      /\ req' = [req EXCEPT ![r] = next]
      /\ jobs' \subseteq jobs
      /\ staged' = Unstaged(r, c, done, next)
      /\ UNCHANGED <<policy, live>>
  BY <1>3 DEF Return, Release
<1>7. q.todo \in TodoOf(q.route)
  BY <1>1 DEF Typed
<1>8. to \in c.done \cup c.failed
  BY <1>3
<1>9. rest \in TodoOf(q.route)
  BY <1>1, <1>7, <1>8, RestOfTodo
<1>10. over.seen \in Request \cup {None}
  <2>1. c.does = "cat" => q.serial \in Serial
    BY <1>1, <1>7, Purpose DEF Typed, Sharing
  <2>2. q.serial \in Serial => dump[q.serial] \in Request \cup {None}
    BY DEF LInv
  <2> QED BY <1>1, <1>5, <2>1, <2>2 DEF Typed
<1> HIDE DEF over, rest
<1>11. /\ over.route \in Offers[r] /\ over.route # None
       /\ over.serial \in Serial \cup {None} /\ over.package \in Package \cup {None}
       /\ over.route \in Sharing => over.serial \in Serial
       /\ over.todo \in TodoOf(over.route)
  BY <1>1, <1>4, <1>5, <1>9 DEF Typed
<1>12. /\ Typed(r, next) /\ next.state \in {"refused", "replied", "waiting"}
       /\ next.route = over.route /\ next.serial = over.serial /\ next.seen = over.seen
       /\ next.troubled <=> over.troubled
       /\ next.state # "refused" => next.todo = over.todo
       /\ next.state = "replied" => over.todo = <<>>
  BY <1>4, <1>10, <1>11, OnwardTyped
<1> HIDE DEF next
<1>13. ReturnsTo(r, done, to, next)
  BY <1>1, <1>2, <1>3, <1>4, <1>5, <1>6, <1>12 DEF ReturnsTo, rest
<1> QED BY <1>13

\* The settings after a command, device by device.
LEMMA ReturnProxy ==
    ASSUME IInv, LInv, NEW r \in Request, NEW done, NEW to, NEW next, ReturnsTo(r, done, to, next),
           NEW s \in Serial
    PROVE  ProxyInv(s)'
<1> DEFINE q == req[r]
           c == Head(q.todo)
<1>1. /\ DOMAIN req = Request /\ ProxyInv(s) /\ settings \in [Serial -> SUBSET ProxyKeys]
      /\ req' = [req EXCEPT ![r] = next]
  BY DEF IInv, LInv, ReturnsTo
<1>2. /\ q.state = "waiting" /\ q.route \in DOMAIN Routes /\ q.todo \in TodoOf(q.route)
      /\ q.todo # <<>> /\ q.route # None /\ q.serial \in Serial \cup {None}
  BY DEF ReturnsTo, Shaped, Typed
<1>3. /\ next.route = q.route /\ next.serial = q.serial
      /\ next.troubled <=> q.troubled \/ ~done \/ Overlapped(r, q)
      /\ next.state \in {"refused", "replied", "waiting"}
  BY DEF ReturnsTo
<1>4. Keeps(q, next)
  BY <1>2, <1>3 DEF Keeps
<1>5. settings' = IF done /\ c.does = "put" THEN [settings EXCEPT ![q.serial] = @ \cup {c.key}]
                  ELSE IF done /\ c.does = "drop" THEN [settings EXCEPT ![q.serial] = @ \ {c.key}]
                  ELSE settings
  BY DEF ReturnsTo, Effect
<1>6. SetsProxy(next) <=> SetsProxy(q)
  BY <1>3 DEF SetsProxy
<1>7. CASE ~(next.serial = s /\ SetsProxy(next))
  <2>1. settings'[s] = settings[s]
    <3>1. CASE q.serial # s
      BY <1>1, <1>5, <3>1
    <3>2. CASE ~SetsProxy(q)
      <4>1. c.does \notin {"put", "drop"}
        BY <1>2, <3>2, Purpose DEF SetsProxy
      <4> QED BY <1>5, <4>1
    <3> QED BY <1>3, <1>6, <1>7, <3>1, <3>2
  <2> QED BY <1>1, <1>2, <1>4, <1>7, <2>1, ProxyStep
<1>8. CASE SpoiledBy(next, s)
  BY <1>1, <1>2, <1>4, <1>8, ProxyStep
<1>9. CASE next.serial = s /\ SetsProxy(next) /\ ~SpoiledBy(next, s)
  <2>1. /\ done /\ ~Overlapped(r, q) /\ next.state \in {"waiting", "replied"}
        /\ q.route \in {"proxy_setup", "proxy_clear"} /\ q.serial = s
    BY <1>3, <1>9 DEF SpoiledBy, SetsProxy
  <2>2. \A x \in Request \ {r} : ~Setter(req[x], s)
    BY <1>6, <1>9, <2>1 DEF Overlapped, Setter
  <2>3. Setter(q, s)
    BY <1>2, <1>6, <1>9, <2>1 DEF Setter
  <2>4. CASE \E x \in Request : SpoiledBy(req[x], s)
    <3>1. PICK x \in Request : SpoiledBy(req[x], s)
      BY <2>4
    <3>2. x # r
      BY <1>2, <1>3, <1>4, <1>9, <3>1 DEF SpoiledBy, Keeps, SetsProxy
    <3>3. req'[x] = req[x]
      BY <1>1, <3>2
    <3> QED BY <3>1, <3>3 DEF ProxyInv
  <2>5. CASE ~(\E x \in Request : SpoiledBy(req[x], s))
    <3>1. Progress(q, settings[s])
      BY <1>1, <2>3, <2>5 DEF ProxyInv
    <3>2. q.route \in Sharing
      BY <2>1 DEF Sharing
    <3>3. c.does \in {"put", "drop"} /\ c.key \in ProxyKeys
      BY <1>2, <2>1, <3>2, SharingSteps DEF Single
    <3>4. settings'[s] = IF c.does = "put" THEN settings[s] \cup {c.key} ELSE settings[s] \ {c.key}
      BY <1>1, <1>5, <2>1, <3>3
    <3>5. next.todo = Tail(q.todo) /\ (next.state = "replied" => next.todo = <<>>)
      <4>1. /\ next.todo = SubSeq(q.todo, to + 1, Len(q.todo)) /\ to \in c.done \cup c.failed
            /\ next.state = "replied" => next.todo = <<>>
        BY <2>1 DEF ReturnsTo
      <4> HIDE DEF q
      <4>2. SubSeq(q.todo, to + 1, Len(q.todo)) = Tail(q.todo)
        BY <1>2, <3>2, <4>1, RestOfTodo
      <4> QED BY <4>1, <4>2
    <3>6. settings[s] \in SUBSET ProxyKeys /\ settings'[s] \in SUBSET ProxyKeys
      BY <1>1, <3>3, <3>4
    <3> HIDE DEF q
    <3>7. Progress(next, settings'[s])
      BY <1>2, <1>3, <2>1, <3>1, <3>4, <3>5, <3>6, ProgressStep
    <3>8. next.state = "replied" => settings'[s] \in {{}, ProxyKeys}
      <4>1. next.route \in {"proxy_setup", "proxy_clear"}
        BY <1>3, <2>1
      <4> DEFINE after == settings'[s]
      <4>2. after \in SUBSET ProxyKeys /\ Progress(next, after)
        BY <3>6, <3>7
      <4> HIDE DEF after
      <4>3. ASSUME next.todo = <<>> PROVE after \in {{}, ProxyKeys}
        <5>1. Len(next.todo) = 0
          BY <4>3
        <5> QED BY <4>1, <4>2, <5>1 DEF Progress
      <4> QED BY <3>5, <4>3 DEF after
    <3> QED BY <1>1, <1>2, <1>4, <2>1, <2>2, <2>3, <3>7, <3>8, ProxyStep DEF q
  <2> QED BY <2>4, <2>5
<1> QED BY <1>7, <1>8, <1>9

\* The hierarchy file after a command, device by device.
LEMMA ReturnDump ==
    ASSUME IInv, LInv, NEW r \in Request, NEW done, NEW to, NEW next, ReturnsTo(r, done, to, next),
           NEW s \in Serial
    PROVE  DumpInv(s)'
<1> DEFINE q == req[r]
           c == Head(q.todo)
           whole == <<does("dump"), does("cat"), does("rm")>>
<1>1. /\ DOMAIN req = Request /\ DumpInv(s) /\ dump \in [Serial -> Request \cup {None}]
      /\ req' = [req EXCEPT ![r] = next]
  BY DEF IInv, LInv, ReturnsTo
<1>2. /\ q.state = "waiting" /\ q.route \in DOMAIN Routes /\ q.todo \in TodoOf(q.route)
      /\ q.todo # <<>> /\ q.route # None /\ q.serial \in Serial \cup {None}
  BY DEF ReturnsTo, Shaped, Typed
<1>3. /\ next.route = q.route /\ next.serial = q.serial
      /\ next.troubled <=> q.troubled \/ ~done \/ Overlapped(r, q)
      /\ next.state \in {"refused", "replied", "waiting"}
  BY DEF ReturnsTo
<1>4. Keeps(q, next)
  BY <1>2, <1>3 DEF Keeps
<1>5. dump' = IF done /\ c.does = "dump" THEN [dump EXCEPT ![q.serial] = r]
              ELSE IF done /\ c.does = "rm" THEN [dump EXCEPT ![q.serial] = None]
              ELSE dump
  BY DEF ReturnsTo, Effect
<1>6. c.does \in {"dump", "cat", "rm"} => q.route = "inspector"
  BY <1>2, Purpose
<1> HIDE DEF whole
<1>7. CASE q.route = "inspector"
  <2>1. q.route \in Sharing
    BY <1>7 DEF Sharing
  <2>2. /\ Tail(q.todo) = <<>> => c.does = "rm"
        /\ Tail(q.todo) # whole
    BY <1>2, <1>7, <2>1, SharingSteps DEF whole
  <2>3. next.state # "refused" => next.todo = Tail(q.todo) /\ (next.state = "replied" => Tail(q.todo) = <<>>)
    <3>1. /\ next.state # "refused" => next.todo = SubSeq(q.todo, to + 1, Len(q.todo))
          /\ next.state = "replied" => SubSeq(q.todo, to + 1, Len(q.todo)) = <<>>
          /\ to \in c.done \cup c.failed
      BY DEF ReturnsTo
    <3> HIDE DEF q
    <3>2. SubSeq(q.todo, to + 1, Len(q.todo)) = Tail(q.todo)
      BY <1>2, <2>1, <3>1, RestOfTodo
    <3> QED BY <3>1, <3>2
  <2>4. ASSUME q.serial = s, ~done \/ c.does # "rm" PROVE DumpedBy(next, s)
    <3>1. CASE next.state = "refused" \/ next.troubled
      BY <1>3, <1>7, <2>4, <3>1 DEF DumpedBy
    <3>2. CASE next.state # "refused" /\ ~next.troubled
      <4>1. next.state = "waiting" /\ next.todo # whole
        BY <1>3, <2>2, <2>3, <2>4, <3>2
      <4> QED BY <1>3, <1>7, <2>4, <4>1 DEF DumpedBy, whole
    <3> QED BY <3>1, <3>2
  <2>5. \/ dump'[s] = None
        \/ dump'[s] = r /\ DumpedBy(next, s)
        \/ dump'[s] = dump[s] /\ (dump[s] = r /\ DumpedBy(req[r], s) => DumpedBy(next, s))
    <3>1. CASE q.serial # s
      <4>1. dump'[s] = dump[s] /\ ~DumpedBy(req[r], s)
        BY <1>1, <1>5, <3>1 DEF DumpedBy
      <4> QED BY <4>1
    <3>2. CASE q.serial = s /\ done /\ c.does = "rm"
      BY <1>1, <1>5, <3>2
    <3>3. CASE q.serial = s /\ (~done \/ c.does # "rm")
      BY <1>1, <1>5, <2>4, <3>3
    <3> QED BY <3>1, <3>2, <3>3
  <2>6. dump[s] \in Request \cup {None}
    BY <1>1
  <2> QED BY <1>1, <1>4, <2>5, <2>6, DumpStep
<1>8. CASE q.route # "inspector"
  <2>1. dump'[s] = dump[s] /\ ~DumpedBy(req[r], s) /\ dump[s] \in Request \cup {None}
    BY <1>1, <1>5, <1>6, <1>8 DEF DumpedBy
  <2> QED BY <1>1, <1>4, <2>1, DumpStep
<1> QED BY <1>7, <1>8

LEMMA ReturnLInv ==
    ASSUME IInv, LInv, NEW r \in Request, Return(r)
    PROVE  LInv'
<1>1. PICK done, to, next : ReturnsTo(r, done, to, next)
  BY Returned
<1> DEFINE q == req[r]
           c == Head(q.todo)
<1>2. \A s \in Serial : ProxyInv(s)' /\ DumpInv(s)'
  BY <1>1, ReturnProxy, ReturnDump
<1>3. /\ req' = [req EXCEPT ![r] = next] /\ Typed(r, next) /\ DOMAIN req = Request
      /\ jobs' \subseteq Allowed /\ UNCHANGED <<policy, live>>
  BY <1>1 DEF ReturnsTo, IInv, LInv
<1>4. /\ q.route \in DOMAIN Routes /\ q.todo \in TodoOf(q.route) /\ q.todo # <<>>
      /\ q.route \in Sharing => q.serial \in Serial
  BY <1>1 DEF ReturnsTo, Shaped, Typed
<1>5. /\ c.does \in {"put", "drop"} => q.serial \in Serial /\ c.key \in ProxyKeys
      /\ c.does \in {"dump", "cat", "rm"} => q.serial \in Serial
  <2> HIDE DEF q
  <2> QED BY <1>4, Purpose DEF Sharing
<1>6. settings \in [Serial -> SUBSET ProxyKeys] /\ dump \in [Serial -> Request \cup {None}]
  BY DEF LInv
<1>7. IF done THEN Effect(r, c, q.serial) ELSE UNCHANGED <<settings, dump>>
  BY <1>1 DEF ReturnsTo
<1>8. settings' \in [Serial -> SUBSET ProxyKeys]
  BY <1>5, <1>6, <1>7 DEF Effect
<1>9. dump' \in [Serial -> Request \cup {None}]
  BY <1>5, <1>6, <1>7 DEF Effect
<1>10. staged' \subseteq staged \cup {r} /\ (r \in staged' => Pushing(next))
  <2>1. staged' = Unstaged(r, c, done, next) /\ next.route = q.route /\ q.state = "waiting"
    BY <1>1 DEF ReturnsTo
  <2>2. r \in staged => Pushing(q)
    BY DEF LInv
  <2>3. c = q.todo[1]
    OBVIOUS
  <2> HIDE DEF q, c
  <2> QED BY <2>1, <2>2, <2>3 DEF Pushing, Unstaged, IsJob
<1> QED BY <1>2, <1>3, <1>8, <1>9, <1>10, OneLInv

LEMMA NextLInv == IInv /\ LInv /\ [Next]_vars => LInv'
<1> SUFFICES ASSUME IInv, LInv, [Next]_vars PROVE LInv'
  OBVIOUS
<1>1. ASSUME UNCHANGED <<req, settings, dump, staged, jobs>>,
             policy' \in Policies \cup {NoPolicy}, live' \in BOOLEAN
      PROVE  LInv'
  <2>1. \A s \in Serial : ProxyInv(s)' /\ DumpInv(s)'
    BY <1>1 DEF LInv, ProxyInv, DumpInv
  <2> QED BY <1>1, <2>1 DEF LInv
<1>2. ASSUME NEW r \in Request, Arrive(r) \/ Step(r) \/ JobTimeout(r) PROVE LInv'
  BY <1>2, ArriveLInv, StartLInv, AcceptLInv, BeginLInv, ReturnLInv, TimeoutLInv DEF Step
<1>3. ASSUME NEW p \in Policies, SaveScope(p) PROVE LInv'
  BY <1>1, <1>3 DEF SaveScope, LInv
<1>4. CASE Expire
  BY <1>1, <1>4 DEF Expire, LInv
<1>5. CASE UNCHANGED vars
  BY <1>1, <1>5 DEF vars, LInv
<1> QED BY <1>2, <1>3, <1>4, <1>5 DEF Next

LEMMA LInvariance == Spec => [](IInv /\ LInv)
<1>1. Init => IInv /\ LInv
  BY InitIInv, InitLInv
<1>2. IInv /\ LInv /\ [Next]_vars => (IInv /\ LInv)'
  BY NextIInv, NextLInv
<1> QED BY <1>1, <1>2, PTL DEF Spec

\* Every request is in a state a handler can be in, on a device it named, and
\* what is on the devices and on the host belongs to a request (the routes of
\* /api/dast/ and /api/console/).
THEOREM RequestsTyped == Spec => []TypeOK
<1>1. IInv /\ LInv => TypeOK
  <2> SUFFICES ASSUME IInv, LInv PROVE TypeOK
    OBVIOUS
  <2>1. \A r \in Request : Shaped(req[r]) /\ Typed(r, req[r])
    BY DEF IInv, LInv
  <2>2. staged \subseteq Request
    BY DEF LInv
  <2> QED BY <2>1, <2>2 DEF TypeOK, LInv, Shaped, Typed
<1> QED BY <1>1, LInvariance, PTL

\* Who is shown a hierarchy: only cat shows one, the one that is on the device.
LEMMA HierarchySeen ==
    ASSUME IInv, LInv, [Next]_vars, NEW r \in Request
    PROVE  HierarchyExplained(r)
<1> SUFFICES ASSUME req'[r].seen \notin {req[r].seen, r}
             PROVE  LET o == req'[r].seen
                    IN req[o].state \in {"waiting", "refused"} \/ req[o].troubled
  BY DEF HierarchyExplained
<1>1. DOMAIN req = Request /\ Shaped(req[r]) /\ Typed(r, req[r])
  BY DEF IInv, LInv
<1>2. req'[r] # req[r]
  OBVIOUS
<1>3. PICK x \in Request : Arrive(x) \/ Step(x) \/ JobTimeout(x)
  BY <1>2 DEF Next, vars, SaveScope, Expire
<1>4. x = r
  <2>1. req' = [req EXCEPT ![x] = req'[x]]
    BY <1>1, <1>3 DEF Arrive, Step, Start, AcceptJob, Begin, Return, JobTimeout
  <2> QED BY <1>1, <1>2, <2>1
<1>5. CASE Arrive(r)
  <2>1. req'[r].seen = None /\ req[r].seen = None
    BY <1>1, <1>5 DEF Arrive, Idle, Typed
  <2> QED BY <2>1
<1>6. CASE Start(r) \/ Begin(r)
  <2>1. req'[r] = Onward(req[r]) /\ req[r].state # "idle"
    BY <1>1, <1>6 DEF Start, Begin
  <2>2. Onward(req[r]).seen = req[r].seen
    BY <1>1, <2>1, OnwardTyped DEF Typed
  <2> QED BY <2>1, <2>2
<1>7. CASE AcceptJob(r) \/ JobTimeout(r)
  <2>1. req'[r].seen = req[r].seen
    BY <1>1, <1>7 DEF AcceptJob, JobTimeout, Shaped, Idle
  <2> QED BY <2>1
<1>8. CASE Return(r)
  <2>1. PICK done, to, next : ReturnsTo(r, done, to, next)
    BY <1>8, Returned
  <2> DEFINE q == req[r]
             c == Head(q.todo)
  <2>2. /\ req'[r].seen = IF c.does = "cat" /\ done THEN dump[q.serial] ELSE q.seen
        /\ c.does = "cat" /\ done => dump[q.serial] # None
        /\ q.route \in DOMAIN Routes /\ q.todo \in TodoOf(q.route) /\ q.todo # <<>>
        /\ q.route \in Sharing => q.serial \in Serial
    BY <1>1, <2>1 DEF ReturnsTo, Typed, Shaped
  <2>3. c.does = "cat" /\ req'[r].seen = dump[q.serial] /\ dump[q.serial] # None
    BY <2>2
  <2> HIDE DEF q
  <2>4. q.serial \in Serial
    BY <2>2, <2>3, Purpose DEF Sharing
  <2>5. DumpedBy(req[dump[q.serial]], q.serial)
    BY <2>3, <2>4 DEF LInv, DumpInv
  <2> QED BY <2>3, <2>5 DEF DumpedBy
<1> QED BY <1>3, <1>4, <1>5, <1>6, <1>7, <1>8 DEF Step

\* The proxy of a device, the certificate files of the host and the hierarchy
\* file of a device are left half done, or shown to another request, only by a
\* request that overlapped, lost its scope or whose command failed
\* (configure_proxy, clear_proxy, dump_view_hierarchy, install_dast_ca_cert).
THEOREM NothingLeftUnexplained == Spec => LeftoversExplained
<1>1. IInv /\ LInv => /\ \A s \in Serial : ProxyExplained(s)
                      /\ \A r \in Request : CertificateExplained(r)
  <2> SUFFICES ASSUME IInv, LInv PROVE /\ \A s \in Serial : ProxyExplained(s)
                                       /\ \A r \in Request : CertificateExplained(r)
    OBVIOUS
  <2>1. ASSUME NEW s \in Serial PROVE ProxyExplained(s)
    BY DEF LInv, ProxyInv, SpoiledBy, Setter, ProxyExplained
  <2>2. ASSUME NEW r \in Request PROVE CertificateExplained(r)
    BY DEF LInv, Pushing, CertificateExplained
  <2> QED BY <2>1, <2>2
<1>2. IInv /\ LInv /\ [Next]_vars => [\A r \in Request : HierarchyExplained(r)]_vars
  BY HierarchySeen
<1> QED BY <1>1, <1>2, LInvariance, PTL DEF Spec, LeftoversExplained
=============================================================================
