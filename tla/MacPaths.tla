-------------------------------- MODULE MacPaths --------------------------------
(***************************************************************************)
(* The general functions of the macOS backend (wtop_macos.c,               *)
(* wtop_macos_hw.c) as programs for Paths.  Several of them hold memory or *)
(* a directory while they build their Lua result, so that a memory error   *)
(* in Lua loses it; a return never does.                                   *)
(***************************************************************************)
EXTENDS Sequences, TLC, PathSteps

ReadMacFile == [
    main     |-> <<Take("fd", "error"), Use("fd"), Fail("closed"), Fail("closed"), Take("buffer", "nomemory"), Goto("fill")>>,
    fill     |-> <<Use("fd"), Try("fill"), Fail("broken"), Close("fd"), Fail("unread"), Fail("unread"),
                   Use("buffer"), Lua, Close("buffer")>>,
    nomemory |-> <<Close("fd"), Goto("raised")>>,
    broken   |-> <<Close("buffer"), Close("fd"), Goto("error")>>,
    unread   |-> <<Close("buffer"), Goto("error")>>,
    closed   |-> <<Close("fd"), Goto("error")>>]

ListMacDirectory == [
    main   |-> <<Take("directory", "error"), Lua, Goto("each")>>,
    each   |-> <<Use("directory"), Fail("closed"), Try("last"), Lua, Goto("each")>>,
    last   |-> <<Close("directory"), Fail("error"), Lua>>,
    closed |-> <<Close("directory"), Goto("error")>>]

\* A descriptor whose close failed is not closed again.
WriteMacFile == [
    main   |-> <<Take("temporary", "raised"), Take("fd", "unmade"), Fail("failed"), Goto("write")>>,
    write  |-> <<Use("fd"), Fail("failed"), Try("write"), Fail("failed"), Close("fd"), Fail("failed"),
                 Fail("failed"), Close("temporary"), Lua>>,
    failed |-> <<CloseIf("fd"), Use("temporary"), Close("temporary"), Goto("error")>>,
    unmade |-> <<Close("temporary"), Goto("error")>>]

\* The thread's locale is borrowed for one call.
CharacterWidth == [
    main  |-> <<Once("width_locale"), If("width_locale", "width"), Lua>>,
    width |-> <<Use("width_locale"), Attempt("borrowed"), CloseIf("borrowed"), Lua>>]

\* One send right for the host is kept for the life of the process.
HostPort == <<Once("host")>>

CollectMacMemory == [main |-> <<Fail("error")>> \o HostPort \o <<Fail("error"), Lua>>]

ProcessTable == [
    table |-> <<Fail("error"), Take("rows", "error"), Use("rows"), Try("grown"), Back>>,
    grown |-> <<Close("rows"), Fail("error"), Goto("table")>>]

CollectMacProcess == [
    main |-> <<Do("table"), Lua, Goto("each")>>,
    each |-> <<Use("rows"), Try("last"), Lua, Goto("each")>>,
    last |-> <<Close("rows"), Lua>>] @@ ProcessTable

\* The mount list belongs to the C library, which reuses it.
PushMounts == [
    main   |-> <<Once("mounts"), If("mounts", "mounts"), Goto("error")>>,
    mounts |-> <<Fail("error"), Use("mounts"), Lua>>]

BatteryDetails == [
    battery    |-> <<Attempt("service"), If("service", "properties"), Back>>,
    properties |-> <<Attempt("properties"), Lua, CloseIf("properties"), Close("service"), Back>>]

CollectMacPower == [
    main   |-> <<Attempt("info"), If("info", "list"), Goto("rows")>>,
    list   |-> <<Attempt("list"), Use("info"), Goto("rows")>>,
    rows   |-> <<Lua, If("list", "source"), Goto("last")>>,
    source |-> <<Use("info"), Use("list"), Try("last"), Try("source"), Lua, Do("battery"), Lua, Goto("source")>>,
    last   |-> <<Lua, CloseIf("list"), CloseIf("info"), Fail("error"), Lua>>] @@ BatteryDetails

CollectConnections == [
    main  |-> <<Attempt("pids"), Attempt("fds"), Attempt("seen"), If("pids", "fds"), Goto("freed")>>,
    fds   |-> <<If("fds", "seen"), Goto("freed")>>,
    seen  |-> <<If("seen", "all"), Goto("freed")>>,
    freed |-> <<CloseIf("pids"), CloseIf("fds"), CloseIf("seen"), Goto("raised")>>,
    all   |-> <<Use("pids"), Lua, Goto("each")>>,
    each  |-> <<Use("fds"), Use("seen"), Lua, Try("each"), Lua, Close("pids"), Close("fds"), Close("seen")>>]

CollectCoalitions == [
    main   |-> <<Attempt("pids"), Attempt("groups"), If("pids", "groups"), Goto("freed")>>,
    groups |-> <<If("groups", "all"), Goto("freed")>>,
    freed  |-> <<CloseIf("pids"), CloseIf("groups"), Goto("raised")>>,
    all    |-> <<Use("pids"), Use("groups"), Lua, Close("pids"), Close("groups"), Fail("error")>>]

MacPrograms == [
    readfile |-> ReadMacFile, listdir |-> ListMacDirectory, atomic_write |-> WriteMacFile,
    wcwidth |-> CharacterWidth, collect_memory |-> CollectMacMemory, collect_process |-> CollectMacProcess,
    collect_mounts |-> PushMounts, collect_power_supply |-> CollectMacPower,
    collect_connections |-> CollectConnections, collect_cgroup |-> CollectCoalitions]

MacStatics == {"width_locale", "host", "mounts"}
=============================================================================
