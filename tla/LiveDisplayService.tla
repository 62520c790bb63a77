------------------------- MODULE LiveDisplayService -------------------------
(***************************************************************************)
(* main() of the LiveDisplay HAL (src/livedisplay/service.cpp): it loads   *)
(* the vendor's display library, opens a session with it, asks whether     *)
(* picture adjustment is supported, registers its two services and serves. *)
(* Whatever fails on the way leads to the clean-up and the exit, and init  *)
(* starts the process again; that is also how it waits for a backend that  *)
(* is not ready yet.  Clients may call as soon as a service is registered; *)
(* the only thread that answers is the one that ends up in                 *)
(* joinRpcThreadpool().  The library, the backend, the binder driver, the  *)
(* service manager and init are external.                                  *)
(***************************************************************************)
EXTENDS Integers, Sequences

CONSTANTS
  Clients,    \* the processes that call the two services
  Libraries,  \* the display libraries of devices: the optional entry points, the version of
              \* the picture adjustment, 0 for none, and the ranges they report
  Faults      \* what may fail, at any time

AllFaults ==
  {"dlopen", "dlsym_init", "dlsym_deinit", "init", "library", "register_pa", "hbm_node",
   "register_se", "hbm_text", "kill"}

Entries == {"get_feature_version", "get_global_pa_range", "get_global_pa_config",
            "set_global_pa_config"}

\* hsic_ranges
Parts == {"hue", "saturation", "intensity", "contrast", "saturationThreshold"}
Ranges == [Parts -> [max : Int, min : Int]]

ASSUME ServiceAssumption ==
  /\ Faults \subseteq AllFaults
  /\ Libraries \subseteq [entries : SUBSET Entries, version : Nat, ranges : Ranges]

Stages ==
  {"off", "load", "resolve", "init", "probe", "register_pa", "register_se", "serving",
   "shutdown", "exit"}

VARIABLES
  stage,       \* how far main() is
  lib,         \* libHandle is open
  deinit,      \* disp_api_deinit is resolved
  session,     \* the session of the library: "none", "open", "closed"
  supported,   \* the static of PictureAdjustment::isSupported: -1 unknown, 0, 1
  registered,  \* the services this process has registered
  library,     \* the library of this device, for good
  backend,     \* what the library talks to: "starting", then "ready" for good
  calls,       \* the calls that wait for an answer, oldest first
  stray        \* history: the library was called without an open session

main == <<lib, deinit, session, supported, registered>>
vars == <<stage, main, library, backend, calls, stray>>

TypeOK ==
  /\ stage \in Stages /\ lib \in BOOLEAN /\ deinit \in BOOLEAN
  /\ session \in {"none", "open", "closed"} /\ supported \in {-1, 0, 1}
  /\ registered \subseteq {"pa", "se"} /\ library \in Libraries
  /\ backend \in {"starting", "ready"}
  /\ calls \in Seq([client : Clients, service : {"pa", "se"}]) /\ stray \in BOOLEAN

Init ==
  /\ stage = "off" /\ lib = FALSE /\ deinit = FALSE /\ session = "none" /\ supported = -1
  /\ registered = {} /\ library \in Libraries /\ backend = "starting" /\ calls = <<>> /\ stray = FALSE

-----------------------------------------------------------------------------
\* A step of main() from one stage to the next, or to the clean-up.
At(here, there) == stage = here /\ stage' = there

BadEnd(here, fault) == fault \in Faults /\ At(here, "shutdown")

Launch == At("off", "load") /\ UNCHANGED <<main, library, backend, calls, stray>>

\* dlopen: one of the libraries, or none.
Load ==
  /\ \/ At("load", "resolve") /\ lib' = TRUE
     \/ BadEnd("load", "dlopen") /\ UNCHANGED lib
  /\ UNCHANGED <<deinit, session, supported, registered, library, backend, calls, stray>>

\* Mutated: a missing disp_api_deinit is tolerated.
ResolveInitOnly ==
  /\ \/ At("resolve", "init") /\ deinit' = TRUE
     \/ At("resolve", "init") /\ "dlsym_deinit" \in Faults /\ UNCHANGED deinit
     \/ BadEnd("resolve", "dlsym_init") /\ UNCHANGED deinit
  /\ UNCHANGED <<lib, session, supported, registered, library, backend, calls, stray>>

\* dlsym: both entry points, or the clean-up without disp_api_deinit.
Resolve ==
  /\ \/ At("resolve", "init") /\ deinit' = TRUE
     \/ BadEnd("resolve", "dlsym_init") /\ UNCHANGED deinit
     \/ BadEnd("resolve", "dlsym_deinit") /\ UNCHANGED deinit
  /\ UNCHANGED <<lib, session, supported, registered, library, backend, calls, stray>>

\* Mutated: the status of disp_api_init is not looked at.
OpenSessionUnchecked ==
  /\ \/ At("init", "probe") /\ session' = "open"
     \/ At("init", "probe") /\ "init" \in Faults /\ UNCHANGED session
  /\ UNCHANGED <<lib, deinit, supported, registered, library, backend, calls, stray>>

\* disp_api_init(&cookie, 0)
OpenSession ==
  /\ \/ At("init", "probe") /\ session' = "open"
     \/ BadEnd("init", "init") /\ UNCHANGED session
  /\ UNCHANGED <<lib, deinit, supported, registered, library, backend, calls, stray>>

\* Every call into the library, with the cookie of the session.
UseLibrary == stray' = (stray \/ session # "open" \/ ~lib)

\* The results a call of the library may have: TRUE for the status 0.
LibraryOutcomes == {TRUE} \cup {FALSE : f \in Faults \cap {"library"}}

Exported(entry) == entry \in library.entries

\* Mutated: the version alone decides.
AdjustableByVersion == Exported("get_feature_version") /\ library.version > 0

\* The library has a version of the feature, and ranges in which no bound is 0; that
\* of the saturation's threshold is not looked at.
Adjustable ==
  /\ Exported("get_feature_version") /\ library.version > 0
  /\ Exported("get_global_pa_range")
  /\ \A p \in Parts \ {"saturationThreshold"} :
       library.ranges[p].max # 0 /\ library.ranges[p].min # 0

\* Mutated: the status of the library is remembered as the answer.
IsSupportedStatus ==
  IF supported >= 0 THEN UNCHANGED <<supported, stray>>
  ELSE supported' = (IF backend = "ready" THEN 1 ELSE -22) /\ UseLibrary

\* PictureAdjustment::isSupported: asked once, then remembered for the rest of the
\* process.
IsSupported ==
  IF supported >= 0 THEN UNCHANGED <<supported, stray>>
  ELSE /\ \E ok \in LibraryOutcomes :
            supported' = IF ok /\ backend = "ready" /\ Adjustable THEN 1 ELSE 0
       /\ IF Exported("get_feature_version") THEN UseLibrary ELSE UNCHANGED stray

\* Mutated: a backend that is not ready is skipped.
ProbeSkips ==
  /\ IsSupported
  /\ IF supported' = 1 THEN At("probe", "register_pa") ELSE At("probe", "register_se")
  /\ UNCHANGED <<lib, deinit, session, registered, library, backend, calls>>

\* A backend that is not ready ends the process.
Probe ==
  /\ IsSupported
  /\ IF supported' = 1 THEN At("probe", "register_pa") ELSE At("probe", "shutdown")
  /\ UNCHANGED <<lib, deinit, session, registered, library, backend, calls>>

\* isSupported is asked again, and repeats its answer.
RegisterPa ==
  /\ IsSupported /\ supported' = 1
  /\ \/ At("register_pa", "register_se") /\ registered' = registered \cup {"pa"}
     \/ BadEnd("register_pa", "register_pa") /\ UNCHANGED registered
  /\ UNCHANGED <<lib, deinit, session, library, backend, calls>>

\* SunlightEnhancement is registered where its node can be opened.
RegisterSe ==
  /\ \/ At("register_se", "serving") /\ registered' = registered \cup {"se"}
     \/ At("register_se", "serving") /\ "hbm_node" \in Faults /\ UNCHANGED registered
     \/ BadEnd("register_se", "register_se") /\ UNCHANGED registered
  /\ UNCHANGED <<lib, deinit, session, supported, library, backend, calls, stray>>

\* shutdown: the clean-up, by what was resolved.
Shutdown ==
  /\ At("shutdown", "exit")
  /\ session' = IF deinit THEN "closed" ELSE session
  /\ lib' = FALSE
  /\ UNCHANGED <<deinit, supported, registered, library, backend, calls, stray>>

\* The process is gone with all it held; the calls that wait for it fail.
Gone ==
  /\ stage' = "off" /\ lib' = FALSE /\ deinit' = FALSE /\ session' = "none" /\ supported' = -1
  /\ registered' = {} /\ calls' = <<>>
  /\ UNCHANGED <<library, backend, stray>>

\* main() returns: return 1.
Exit == stage = "exit" /\ Gone

\* The process dies anywhere on the way.
Kill == "kill" \in Faults /\ stage # "off" /\ Gone

BackendReady ==
  /\ backend = "starting" /\ backend' = "ready"
  /\ UNCHANGED <<stage, main, library, calls, stray>>

-----------------------------------------------------------------------------
Waiting(c) == \E k \in DOMAIN calls : calls[k].client = c

\* A client finds a registered service and calls it.
Call(c, s) ==
  /\ s \in registered /\ ~Waiting(c)
  /\ calls' = Append(calls, [client |-> c, service |-> s])
  /\ UNCHANGED <<stage, main, library, backend, stray>>

\* Mutated: the pool has a thread of its own, configureRpcThreadpool(1, false).
ThreadServesEarly == registered # {}

\* Mutated: main() waits for ever, but outside the pool.
NoThreadServes == FALSE

\* configureRpcThreadpool(1, true): the pool has no thread until main() joins it.
ThreadServes == stage = "serving"

\* A node that reads as no number throws in isEnabled, which nothing catches.
SunlightThrows ==
  /\ "hbm_text" \in Faults /\ ThreadServes
  /\ calls # <<>> /\ Head(calls).service = "se"
  /\ Gone

\* A picture-adjustment call goes to the library, unless the entry point is missing
\* or the answer is kept here (getDefaultPictureAdjustment); a sunlight call goes to
\* the node.
ServeCall ==
  /\ ThreadServes /\ calls # <<>>
  /\ \/ Head(calls).service = "pa" /\ UseLibrary
     \/ UNCHANGED stray
  /\ calls' = Tail(calls)
  /\ UNCHANGED <<stage, main, library, backend>>

Main ==
  \/ Launch \/ Load \/ Resolve \/ OpenSession \/ Probe \/ RegisterPa \/ RegisterSe
  \/ Shutdown \/ Exit

Next ==
  \/ Main \/ Kill \/ BackendReady \/ ServeCall \/ SunlightThrows
  \/ \E c \in Clients, s \in {"pa", "se"} : Call(c, s)

Spec == Init /\ [][Next]_vars /\ WF_vars(Main) /\ WF_vars(ServeCall)

-----------------------------------------------------------------------------
\* The library is never called without an open session: not before disp_api_init
\* has succeeded, and not after the clean-up, although a client may call as soon
\* as the first service is registered and the second registration may still fail
\* (service.cpp:93-145).
LibraryCalledInSession == ~stray

\* A session that was opened is closed, and the library with it, before main()
\* returns, whichever step failed (service.cpp:142-150).
ExitLeavesNothing == stage = "exit" => session # "open" /\ ~lib

\* A process that serves, serves both interfaces or picture adjustment alone: a
\* client of sunlight enhancement always finds the other one too.
NeverSunlightAlone == registered # {"se"}

\* The process cleans up what it started, and nothing else (service.cpp:143,
\* "Cleanup what we started").
CleansOnlyWhatItStarted == [][session = "none" => session' # "closed"]_vars

\* A call is answered, or fails with the process, whatever else fails.
EveryCallEnds == \A c \in Clients : Waiting(c) ~> ~Waiting(c)

\* A step in which something fails: a step of the start-up, a call of the library that
\* would have succeeded, the process itself.
Trouble ==
  \/ stage \in {"load", "resolve", "init", "register_pa", "register_se"} /\ stage' = "shutdown"
  \/ supported = -1 /\ supported' = 0 /\ backend = "ready" /\ Adjustable
  \/ stage \notin {"off", "exit"} /\ stage' = "off"

\* Once nothing fails any more, a backend that can adjust the picture and becomes
\* ready is served: whatever has failed before, no answer of a process that asked
\* too early, or was told wrong, is kept (service.cpp:113-116).
ReadyBackendIsServed ==
  <>[][~Trouble]_vars
    => ((backend = "ready" /\ Adjustable) ~> (stage = "serving" /\ "pa" \in registered))

=============================================================================
