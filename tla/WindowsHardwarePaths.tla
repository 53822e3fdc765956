-------------------------- MODULE WindowsHardwarePaths --------------------------
(***************************************************************************)
(* The hardware sources of Windows (wtop_windows_hw.c) as programs for     *)
(* Paths.  The block names of a part that several programs share are its   *)
(* own; `then' and `no' are where it goes on.                              *)
(***************************************************************************)
EXTENDS Sequences, TLC, PathSteps

\* A performance-counter query is opened once and kept; one that lacks a
\* required counter is closed again.
OpenCounters(set, no, then) == [
    open    |-> <<If(set, then), Fail(no), Take(set, no), Use(set), Fail("refused"), Goto(then)>>,
    refused |-> <<Close(set), Goto(no)>>]

CollectCounters(set, no) == <<Use(set), Fail(no)>>

CounterItems(items, set) == <<Use(set), Attempt(items)>>

\* A factory is kept as long as it is current.
RefreshFactory(then) == [
    main     |-> <<Once("dxgi"), Goto("factory")>>,
    factory  |-> <<If("factory", "current"), Goto("make")>>,
    current  |-> <<Use("factory"), Try(then), Close("factory"), Goto("make")>>,
    make     |-> <<Fail(then), Take("factory", then), Goto("adapters")>>,
    adapters |-> <<Use("factory"), Try(then), Take("adapter", then), Use("adapter"), Close("adapter"), Goto("adapters")>>]

DisplayDevices(then) == [
    devices |-> <<Try(then), Take("devices", then), Goto("device")>>,
    device  |-> <<Use("devices"), Attempt("driver"), CloseIf("driver"), Try("device"), Close("devices"), Goto(then)>>]

\* Either both arrays are there, or neither is when the error is raised; the
\* caller may want no processes.
CountGpus(rows) == [
    counters |-> CollectCounters("gpuset", rows) \o <<Attempt("engines"), Attempt("processes"), If("engines", "half"), Goto("freed")>>,
    half     |-> <<Try("freed"), Goto("totals")>>,
    freed    |-> <<CloseIf("engines"), CloseIf("processes"), Goto("raised")>>,
    totals   |-> CounterItems("items", "gpuset") \o <<CloseIf("items"), Goto("memory")>>,
    memory   |-> CounterItems("items", "gpuset") \o <<CloseIf("items"), Try("memory"), Goto(rows)>>]

ProcessNames == <<Lua, Attempt("snapshot"), Lua, CloseIf("snapshot")>>

CollectGpu ==
    RefreshFactory("devices") @@ DisplayDevices("listed")
    @@ [listed |-> <<Fail("error"), Try("rows"), Goto("open")>>]
    @@ OpenCounters("gpuset", "rows", "counters") @@ CountGpus("rows")
    @@ [rows |-> ProcessNames \o <<Lua, CloseIf("engines"), CloseIf("processes")>>]

CollectThermalZones ==
    [main |-> <<Goto("open")>>]
    @@ OpenCounters("zoneset", "error", "zones")
    @@ [zones  |-> CollectCounters("zoneset", "error") \o CounterItems("items", "zoneset") \o <<If("items", "some"), Goto("error")>>,
        some   |-> <<Fail("none")>> \o CounterItems("limits", "zoneset") \o <<Lua, Close("items"), CloseIf("limits")>>,
        none   |-> <<Close("items"), Goto("error")>>]

CollectServices == [
    main   |-> <<Take("manager", "error"), Use("manager"), Fail("closed"), Attempt("buffer"), Attempt("hosts"), If("buffer", "half"), Goto("freed")>>,
    half   |-> <<If("hosts", "both"), Goto("freed")>>,
    both   |-> <<Use("manager"), Fail("failed"), Close("manager"), Lua, Goto("each")>>,
    each   |-> <<Try("last"), Attempt("process"), CloseIf("process"), Use("buffer"), Lua, Goto("each")>>,
    last   |-> <<Lua, Close("buffer"), Close("hosts")>>,
    closed |-> <<Close("manager"), Goto("error")>>,
    freed  |-> <<CloseIf("buffer"), CloseIf("hosts"), Close("manager"), Goto("raised")>>,
    failed |-> <<Close("buffer"), Close("hosts"), Close("manager"), Goto("error")>>]

WatchLauncher == [main |-> <<Once("launcher"), If("launcher", "wait")>>, wait |-> <<Use("launcher")>>]

LoadConfigManager == <<Once("cfgmgr")>>

NetworkGuid == <<Attempt("key"), CloseIf("key")>>

\* "Handles are closed before mutating Lua rows, including allocation errors."
EnrichNetwork == [
    main |-> <<Lua, Attempt("devices"), If("devices", "each"), Goto("rows")>>,
    each |-> <<Use("devices"), Try("last")>> \o NetworkGuid \o <<Try("each")>> \o LoadConfigManager
            \o <<Use("devices")>> \o NetworkGuid \o <<Goto("each")>>,
    last |-> <<Close("devices"), Goto("rows")>>,
    rows |-> <<Lua>>]

\* pdh_set is dropped when the processor groups or the arrays are not whole.
ResetQuery == <<CloseIf("freqset")>>

PowerScheme == <<Once("powrprof"), Attempt("scheme"), CloseIf("scheme")>>

CollectFrequency ==
    [main     |-> <<Try("nogroups"), Try("changed"), Lua, Goto("failed")>>,
     nogroups |-> ResetQuery \o <<Goto("error")>>,
     changed  |-> ResetQuery \o <<Lua, Goto("failed")>>,
     failed   |-> <<Try("late"), Goto("open")>>,
     late     |-> ResetQuery \o <<Goto("open")>>]
    @@ OpenCounters("freqset", "after", "collect")
    @@ [collect |-> <<Use("freqset"), Try("stale"), Try("after"), Goto("arrays")>>,
        stale   |-> ResetQuery \o <<Goto("after")>>,
        arrays  |-> CounterItems("base", "freqset") \o <<CloseIf("base")>> \o CounterItems("items", "freqset")
                    \o <<CloseIf("items"), Try("stale"), Goto("after")>>,
        after   |-> <<Try("moved"), Goto("rows")>>,
        moved   |-> ResetQuery \o <<Goto("rows")>>,
        rows    |-> <<Fail("error")>> \o PowerScheme \o <<Lua>>]

\* The device set is held while its rows are built: a Lua error loses it.
CollectInventory == [
    main   |-> <<Lua, Lua, Goto("bus")>>,
    bus    |-> <<Attempt("devices"), Lua, If("devices", "device"), Goto("wrap")>>,
    device |-> <<Use("devices"), Try("last"), Lua, Goto("device")>>,
    last   |-> <<Close("devices"), Goto("wrap")>>,
    wrap   |-> <<Lua, Try("bus"), Try("parents"), Lua>>,
    parents |-> LoadConfigManager \o <<Lua>>]

ReadSmbios == [main |-> <<Fail("error"), Lua, Fail("error"), Lua>>]

DesktopIdentity == <<Use("interfaces")>>

CaptureDesktop(then) == <<Once("user32"), Try(then), Take("interfaces", then)>> \o DesktopIdentity
                        \o <<Close("interfaces")>>

DisplayEdid == <<Attempt("key"), CloseIf("key")>>

\* "No Lua allocation occurs while a device set or registry key is live."
CollectDisplays == [
    main   |-> <<Lua>> \o CaptureDesktop("devices") \o <<Goto("devices")>>,
    devices |-> <<Take("devices", "after"), Goto("device")>>,
    device |-> <<Use("devices"), Try("last"), Try("device")>> \o LoadConfigManager
              \o <<Use("devices")>> \o DisplayEdid \o <<Goto("device")>>,
    last   |-> <<Close("devices"), Goto("after")>>,
    after  |-> CaptureDesktop("rows") \o <<Goto("rows")>>,
    rows   |-> <<Lua>>]

HardwarePrograms == [
    collect_gpu |-> CollectGpu, collect_hwmon |-> CollectThermalZones, collect_cgroup |-> CollectServices,
    launcher_gone |-> WatchLauncher, collect_cpufreq |-> CollectFrequency, collect_inventory |-> CollectInventory]

CarefulPrograms == [enrich_network |-> EnrichNetwork, collect_displays |-> CollectDisplays, read_smbios |-> ReadSmbios]

HardwareStatics == {"dxgi", "factory", "gpuset", "zoneset", "freqset", "launcher", "cfgmgr", "user32", "powrprof"}
=============================================================================
