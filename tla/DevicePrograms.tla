--------------------------- MODULE DevicePrograms ---------------------------
(***************************************************************************)
(* What the device diagnostics do to a device, as programs.  A program is  *)
(* the sequence of commands a method awaits; a command says what it does   *)
(* and how many commands further the method may go on when it is done and  *)
(* when it failed.  Between two commands a method only computes and checks *)
(* its scope, so the program and the guard of the caller are its control.  *)
(* Loops over what a device lists are cut to one round: more rounds issue  *)
(* the same commands under the same guard.                                 *)
(***************************************************************************)
EXTENDS Naturals, Sequences

NoKey == "none"

Command(does, key, done, failed) ==
    [does |-> does, key |-> key, done |-> done, failed |-> failed]

\* The rest follows whatever came of the command,
Then(does, rest) == <<Command(does, NoKey, {1}, {1})>> \o rest
\* only if it succeeded,
Need(does, rest) == <<Command(does, NoKey, {1}, {Len(rest) + 1})>> \o rest
\* only if it succeeded and what it printed gives the rest something to do,
Find(does, rest) == <<Command(does, NoKey, {1, Len(rest) + 1}, {Len(rest) + 1})>> \o rest
\* or only if it has not given enough by itself.
Until(does, rest) == <<Command(does, NoKey, {1, Len(rest) + 1}, {1})>> \o rest
Only(does) == Then(does, <<>>)

\* A second command makes up for a first that failed or printed nothing; the
\* rest follows if one of them printed what it needs.
Either(rest) ==
    <<Command("read", NoKey, {1, 2, Len(rest) + 2}, {1}),
      Command("read", NoKey, {1, Len(rest) + 1}, {Len(rest) + 1})>> \o rest

ProxyKeys == {"http_proxy", "proxy_host", "proxy_port"}
Put(key) == <<Command("put", key, {1}, {1})>>
Drop(key) == <<Command("drop", key, {1}, {1})>>

-----------------------------------------------------------------------------
\* ADBManager.
installed_apk_identity == Find("read", Only("read"))
is_adb_available == Only("read")
discover_devices == Only("read")
connect_device == Only("connect")
restart_root == Then("root", Only("read"))
install_apk == Only("install")
launch_activity == Only("am")
get_logcat_dump == Only("read")
get_process_pids == Only("read")
capture_screenshot == Only("read")
execute_shell == Only("shell")
get_sockets == Until("read", Until("read", Only("read")))
\* (mutant) the file stays
dump_view_hierarchy_kept == Then("dump", Only("cat"))
\* One path on the device for every request; uiautomator's answer is ignored.
dump_view_hierarchy == Then("dump", Then("cat", Only("rm")))
get_settings == Only("read")
put_setting(key) == Put(key)
delete_setting(key) == Drop(key)
\* The results of the single writes are not looked at.
configure_proxy ==
    put_setting("http_proxy") \o put_setting("proxy_host") \o put_setting("proxy_port")
\* (mutant) only the combined setting is cleared
clear_proxy_combined == put_setting("http_proxy") \o delete_setting("http_proxy")
clear_proxy ==
    put_setting("http_proxy") \o delete_setting("http_proxy")
        \o delete_setting("proxy_host") \o delete_setting("proxy_port")
get_clipboard == Until("read", Only("read"))
set_clipboard == Only("clipboard")
get_package_info == Only("read")
execute_package_action == Only("package")
get_device_posture == Only("read")
wireless_mdns_services == Only("read")
wireless_pair == Only("pair")
wireless_connect == Only("connect")
wireless_disconnect == Only("disconnect")
\* The certificate waits in a file of the host until it is on the device.
install_ca_certificate == Need("push", Only("chmod"))
get_package_memory_and_procs == Then("read", Only("read"))
list_forwards == Then("read", Only("read"))
create_forward == Only("forward")
remove_forward == Only("forward")
remove_all_forwards == Only("forward")
dispatch_custom_intent == Only("am")

-----------------------------------------------------------------------------
\* DeviceFileManager, DeviceMetricsCollector (six commands at once, each under
\* the same guard) and ShellSession's helper for a single command.
list_directory == Only("read")
get_device_info == Only("read")
list_packages == Only("read")
pull_apk == Find("read", Only("read"))
collect_snapshot == Only("read")
run_one == Only("read")

\* StorageAuditor: su first, the plain shell if that gave nothing; then each
\* file that was listed, and the tables of a file that is a database.
_run_su_cmd(rest) == Either(rest)
audit_shared_preferences == _run_su_cmd(_run_su_cmd(<<>>))
audit_sqlite_databases == _run_su_cmd(_run_su_cmd(_run_su_cmd(<<>>)))
audit_cache_leakage == _run_su_cmd(<<>>)
audit_all_storage ==
    audit_shared_preferences \o audit_sqlite_databases \o audit_cache_leakage

\* MemoryForensicsAuditor: pidof or ps, then one scan of the process found.
get_process_pid(rest) == Either(rest)
extract_memory_indicators == Only("read")
run_memory_audit == get_process_pid(extract_memory_indicators)

\* UICrawler: a file of its own on the device, removed whatever happened.
dump_ui_hierarchy == Need("read", Only("read")) \o Only("read")
crawl_app == dump_ui_hierarchy

\* ProviderAuditor, IntentFuzzer, DeepLinkFuzzer.
audit_provider_uri == Only("read")
audit_providers == audit_provider_uri
exercise_component == get_logcat_dump \o Find("am", Then("sleep", get_logcat_dump))
fuzz_activity_intents == exercise_component
fuzz_service_and_receiver_components == exercise_component
exercise_deep_link == get_logcat_dump \o Find("am", Then("sleep", get_logcat_dump))
fuzz_deep_links == exercise_deep_link

\* A dynamic assessment: the parts its request asks for, in this order.
run_dast_background_task(parts) ==
    LET part(name, program) == IF name \in parts THEN program ELSE <<>>
    IN Find("read", part("apk_path", install_apk)
                    \o part("activities", fuzz_activity_intents)
                    \o part("services", fuzz_service_and_receiver_components)
                    \o part("deeplinks", fuzz_deep_links)
                    \o part("authorities", audit_providers)
                    \o part("audit_storage", audit_all_storage)
                    \o part("crawl_ui", crawl_app)
                    \o part("audit_memory", run_memory_audit))
Parts == {"apk_path", "activities", "services", "deeplinks", "authorities",
          "audit_storage", "crawl_ui", "audit_memory"}

NeededFor == [audit_storage |-> "storage", audit_memory |-> "memory", crawl_ui |-> "crawl",
              apk_path |-> "install", authorities |-> "providers", deeplinks |-> "deeplinks"]

-----------------------------------------------------------------------------
\* The routes: who admits the request, the scope actions its guard asks for,
\* what the request names and the programs it may run.
Route(via, needs, names, programs) ==
    [via |-> via, needs |-> needs, names |-> names, programs |-> programs]
OnHost == {}
OnDevice == {"serial"}
OnPackage == {"serial", "package"}

get_dast_devices == Route("session", {}, OnHost, {Find("read", discover_devices)})
get_preflight == Route("session", {}, OnHost, {Find("read", discover_devices)})
get_frida_status == Route("dast", {"frida_status"}, OnDevice, {Only("read")})
connect_dast_device == Route("dast", {"connect"}, OnHost, {connect_device})
restart_dast_root == Route("dast", {"root"}, OnDevice, {restart_root})
install_dast_apk == Route("dast", {"install"}, OnDevice, {install_apk})
launch_dast_activity == Route("dast", {"launch"}, OnPackage, {launch_activity})
dispatch_dast_deeplink == Route("dast", {"deeplink"}, OnPackage, {exercise_component})
execute_adb_command == Route("dast", {"execute_adb"}, OnDevice, {execute_shell})
get_dast_logcat == Route("dast", {"logcat"}, OnPackage, {Find("read", get_logcat_dump)})
capture_dast_screenshot == Route("dast", {"screenshot"}, OnDevice, {capture_screenshot})
audit_dast_storage == Route("dast", {"storage"}, OnPackage, {audit_all_storage})
audit_dast_providers == Route("dast", {"providers"}, OnPackage, {<<>>, audit_providers})
audit_dast_deeplinks == Route("dast", {"deeplinks"}, OnPackage, {<<>>, fuzz_deep_links})
audit_dast_memory == Route("dast", {"memory"}, OnPackage, {run_memory_audit})
crawl_dast_ui == Route("dast", {"crawl"}, OnPackage, {crawl_app})
get_dast_sockets == Route("dast", {"sockets"}, OnDevice, {get_sockets})
dump_dast_inspector == Route("dast", {"inspector"}, OnDevice, {dump_view_hierarchy})
get_dast_settings == Route("dast", {"settings"}, OnDevice, {get_settings})
put_dast_setting ==
    Route("dast", {"settings"}, OnDevice, {put_setting(k) : k \in ProxyKeys})
delete_dast_setting ==
    Route("dast", {"settings"}, OnDevice, {delete_setting(k) : k \in ProxyKeys})
setup_dast_proxy == Route("dast", {"proxy"}, OnDevice, {configure_proxy})
clear_dast_proxy == Route("dast", {"proxy"}, OnDevice, {clear_proxy})
get_dast_packages == Route("dast", {"packages"}, OnDevice, {list_packages})
get_dast_package_info == Route("dast", {"packages"}, OnPackage, {get_package_info})
execute_dast_package_action ==
    Route("dast", {"packages"}, OnPackage, {execute_package_action})
pull_dast_package_apk == Route("dast", {"packages"}, OnPackage, {pull_apk})
list_dast_filesystem == Route("dast", {"fs"}, OnDevice, {list_directory})
get_dast_clipboard == Route("dast", {"clipboard"}, OnDevice, {get_clipboard})
set_dast_clipboard == Route("dast", {"clipboard"}, OnDevice, {set_clipboard})
get_dast_device_posture == Route("dast", {"device_posture"}, OnDevice, {get_device_posture})
get_dast_wireless_mdns == Route("session", {"wireless"}, OnHost, {wireless_mdns_services})
pair_dast_wireless == Route("dast", {"wireless"}, OnHost, {wireless_pair})
connect_dast_wireless == Route("dast", {"wireless"}, OnHost, {wireless_connect})
disconnect_dast_wireless == Route("dast", {"wireless"}, OnHost, {wireless_disconnect})
prepare_dast_ca_cert == Route("session", {"cert"}, OnHost, {<<>>})
install_dast_ca_cert == Route("dast", {"cert"}, OnDevice, {install_ca_certificate})
get_dast_memory_procs ==
    Route("dast", {"memory"}, OnPackage, {get_package_memory_and_procs})
list_dast_forwards == Route("dast", {"forward"}, OnDevice, {list_forwards})
create_dast_forward == Route("dast", {"forward"}, OnDevice, {create_forward})
remove_dast_forward ==
    Route("dast", {"forward"}, OnDevice, {remove_forward, remove_all_forwards})
send_custom_intent == Route("dast", {"intent"}, OnDevice, {dispatch_custom_intent})
\* A dynamic assessment needs the actions of the parts it asks for as well.
trigger_dast_fuzzer(parts) ==
    Route("dast", {"fuzz"} \cup {NeededFor[p] : p \in parts \cap DOMAIN NeededFor}, OnPackage,
          {run_dast_background_task(parts)})

\* The console: its own admission, and mostly the permission of the raw shell.
get_device_metrics == Route("console", {"execute_adb"}, OnPackage, {collect_snapshot})
run_shell_command == Route("console", {"execute_adb"}, OnDevice, {run_one})
list_files == Route("console", {"storage"}, OnPackage, {list_directory})
console_list_packages == Route("console", {"execute_adb"}, OnDevice, {list_packages})
console_device_info == Route("console", {"execute_adb"}, OnDevice, {get_device_info})
list_processes == Route("console", {"execute_adb"}, OnDevice, {Only("read")})
get_device_settings == Route("console", {"execute_adb"}, OnDevice, {Only("read")})

Routes ==
    [devices |-> get_dast_devices, preflight |-> get_preflight,
     frida_status |-> get_frida_status, connect |-> connect_dast_device,
     root |-> restart_dast_root, install |-> install_dast_apk,
     launch |-> launch_dast_activity, deeplink |-> dispatch_dast_deeplink,
     execute_adb |-> execute_adb_command, logcat |-> get_dast_logcat,
     screenshot |-> capture_dast_screenshot, storage |-> audit_dast_storage,
     providers |-> audit_dast_providers, deeplinks |-> audit_dast_deeplinks,
     memory_audit |-> audit_dast_memory, crawl |-> crawl_dast_ui,
     sockets |-> get_dast_sockets, inspector |-> dump_dast_inspector,
     settings_get |-> get_dast_settings, settings_put |-> put_dast_setting,
     settings_delete |-> delete_dast_setting, proxy_setup |-> setup_dast_proxy,
     proxy_clear |-> clear_dast_proxy, packages |-> get_dast_packages,
     package_info |-> get_dast_package_info,
     package_action |-> execute_dast_package_action,
     package_pull |-> pull_dast_package_apk, fs |-> list_dast_filesystem,
     clipboard_get |-> get_dast_clipboard, clipboard_set |-> set_dast_clipboard,
     posture |-> get_dast_device_posture, mdns |-> get_dast_wireless_mdns,
     pair |-> pair_dast_wireless, wireless_connect |-> connect_dast_wireless,
     wireless_disconnect |-> disconnect_dast_wireless,
     cert_prepare |-> prepare_dast_ca_cert, cert_install |-> install_dast_ca_cert,
     memory |-> get_dast_memory_procs, forward_list |-> list_dast_forwards,
     forward_create |-> create_dast_forward, forward_remove |-> remove_dast_forward,
     intent |-> send_custom_intent, fuzz |-> trigger_dast_fuzzer({}),
     fuzz_all |-> trigger_dast_fuzzer(Parts),
     console_metrics |-> get_device_metrics, console_shell |-> run_shell_command,
     console_files |-> list_files, console_packages |-> console_list_packages,
     console_info |-> console_device_info, console_processes |-> list_processes,
     console_settings |-> get_device_settings]

Actions == {"connect", "root", "install", "launch", "deeplink", "execute_adb", "logcat",
            "automation_observe", "automation_execute", "screenshot", "storage",
            "providers", "deeplinks", "memory", "crawl", "frida_status", "fuzz",
            "api_capture", "sockets", "inspector", "settings", "proxy", "packages",
            "fs", "clipboard", "device_posture", "wireless", "cert", "forward", "intent"}
\* The actions that name a package, which must then be an approved one.
PackageBound == {"storage", "providers", "deeplinks", "memory", "crawl", "fuzz", "launch",
                 "automation_observe", "automation_execute", "deeplink"}
=============================================================================
