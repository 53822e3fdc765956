------------------------------- MODULE LinuxPaths -------------------------------
(***************************************************************************)
(* The native readers of Linux as programs for Paths.                      *)
(***************************************************************************)
EXTENDS Sequences, PathSteps

ListDirectory == [
    main |-> <<Lua, Guard("directory", "error"), Lua, Goto("each")>>,
    each |-> <<Use("directory"), Fail("error"), Try("last"), Lua, Goto("each")>>,
    last |-> <<Forget("directory"), Close("directory"), Fail("error"), Lua>>]

CloseDescriptor == <<Close("fd"), Forget("fd"), Fail("error")>>

ReadFileKeeping == [    \* a mistake: the guard still knows the closed descriptor
    main |-> <<Lua, Guard("fd", "error"), Fail("error"), Goto("each")>>,
    each |-> <<Lua, Use("fd"), Fail("error"), Try("each"), Close("fd"), Fail("error"), Fail("error"), Lua>>]

ReadFile == [
    main |-> <<Lua, Guard("fd", "error"), Use("fd"), Fail("error"), Fail("error"), Lua, Goto("each")>>,
    each |-> <<Lua, Use("fd"), Fail("error"), Try("each")>> \o CloseDescriptor \o <<Fail("error"), Lua>>]

ReadFileAt == [
    main |-> <<Lua, Lua, Guard("fd", "error"), Use("fd"), Fail("error"), Fail("error"), Use("fd"), Fail("error")>>
             \o CloseDescriptor \o <<Lua>>]

\* The netlink socket is opened inside wtop_wifi_read, straight into the guard.
ReadWifiLink == [
    main |-> <<Lua, Lua, Fail("close"), Guard("fd", "close"), Use("fd"), Fail("close"), Goto("close")>>,
    close |-> <<CloseIf("fd"), Forget("fd"), Fail("error"), Lua>>]

\* The guard closes the descriptor on every path of this one.
ReadNvmeHealth == [
    main |-> <<Lua, Guard("fd", "error"), Use("fd"), Fail("error"), Fail("error"), Lua>>]

ReadCpuPerfLimits == [
    main |-> <<Lua, Guard("fd", "error"), Use("fd"), Fail("error"), Fail("error"), Use("fd"), Fail("error"), Fail("error")>>
             \o CloseDescriptor \o <<Lua>>]

ReadCpuClockCounters == [
    main  |-> <<Lua, Guard("fd", "error"), Use("fd"), Fail("error"), Fail("error"), Goto("each")>>,
    each  |-> <<Fail("error"), Use("fd"), Fail("error"), Fail("error"), Fail("error"), Try("each"), Goto("close")>>,
    close |-> CloseDescriptor \o <<Lua>>]

\* One descriptor after another passes through the guard.
ProcBatch == [
    main |-> <<Lua, Lua, Take("buffer", "error"), Adopt("buffer"), Lua, Goto("each")>>,
    each |-> <<Try("last"), Try("store"), Take("fd", "store"), Adopt("fd"), Use("fd"), Use("buffer"), Close("fd"), Forget("fd"), Goto("store")>>,
    store |-> <<Lua, Goto("each")>>,
    last |-> <<Close("buffer"), Forget("buffer")>>]

ReadStartTime(failed) ==
    <<Take("stat", failed), Use("stat"), Fail("badstat"), Close("stat"), Fail(failed), Fail(failed)>>

SignalProcess == [
    main    |-> <<Lua, Take("pidfd", "error")>> \o ReadStartTime("failed")
                \o <<Fail("failed"), Use("pidfd"), Fail("failed"), Close("pidfd"), Fail("error")>>,
    badstat |-> <<Close("stat"), Goto("failed")>>,
    failed  |-> <<Close("pidfd"), Goto("error")>>]

RecordingOpen == [
    main   |-> <<Lua, Lua, Take("fd", "error"), Use("fd"), Fail("closed"), Take("stream", "undone"), Turn("fd", "stream"), Turn("stream", "luafile")>>,
    closed |-> <<Close("fd"), Goto("raised")>>,
    undone |-> <<Close("fd"), Goto("error")>>]

\* Two of up to 1024 rows; the guard is the rows' own userdata.
OpenRow(r, without, enabled) ==
    <<Guard(r, without), Use(r), Goto(enabled)>>

ReadPerfCounts == [
    main   |-> <<Lua, Lua, Fail("failed")>> \o OpenRow("row1", "open2", "open2"),
    open2  |-> OpenRow("row2", "wait", "wait"),
    wait   |-> <<Fail("close"), Goto("close")>>,
    close  |-> <<CloseIf("row1"), Forget("row1"), CloseIf("row2"), Forget("row2"), Fail("failed"), Lua>>,
    failed |-> <<CloseIf("row1"), Forget("row1"), CloseIf("row2"), Forget("row2"), Goto("error")>>]

ReadDrmMode == [
    main |-> <<Lua, Take("fd", "told"), Use("fd"), Fail("done"), Use("fd"), Fail("done"), Goto("done")>>,
    done |-> <<Close("fd"), Goto("told")>>,
    told |-> <<Lua>>]

\* wtop_usb_read: an attribute's descriptor never leaves it.
UsbAttribute == <<Attempt("attribute"), CloseIf("attribute")>>

\* wtop_usb_scan: fdopendir takes the copy over, or it is closed.
UsbScan(failed, uncopied) ==
    <<Take("copy", failed), Take("roster", uncopied), Turn("copy", "roster"),
      Use("roster"), Close("roster"), Fail(failed)>>

ReadUsbInterface == [
    main     |-> <<Lua, Take("interface", "error"), Use("interface"), Fail("done")>>
                 \o UsbAttribute \o UsbScan("done", "uncopied") \o <<Goto("ends")>>,
    ends     |-> <<Use("interface"), Attempt("endpoint1"), Fail("done")>> \o UsbAttribute
                 \o <<Attempt("endpoint2"), Fail("done")>> \o UsbAttribute \o <<Goto("again")>>,
    again    |-> UsbScan("done", "uncopied") \o <<Fail("done")>> \o UsbAttribute \o <<Fail("done"), Fail("done"), Goto("done")>>,
    uncopied |-> <<Close("copy"), Goto("done")>>,
    done     |-> <<CloseIf("endpoint1"), CloseIf("endpoint2"), Close("interface"), Fail("error"), Lua>>]

\* The packet leaves C under a protected call, so that it can be freed first.
ReadCpuid == [
    main  |-> <<Lua, Fail("error"), Fail("error"), Attempt("original"), Attempt("desired"), Attempt("data"),
                If("original", "two"), Goto("freed")>>,
    two   |-> <<If("desired", "three"), Goto("freed")>>,
    three |-> <<If("data", "all"), Goto("freed")>>,
    all   |-> <<Use("original"), Fail("freed"), Goto("each")>>,
    each  |-> <<Fail("freed"), Try("pinned"), Goto("more")>>,
    pinned |-> <<Take("affinity", "more"), Use("data"), Use("original"), Close("affinity"), Goto("more")>>,
    more  |-> <<Try("each"), Fail("freed"), Fail("freed"), Close("original"), Close("desired"), Use("data"), Close("data"), Lua>>,
    freed |-> <<CloseIf("original"), CloseIf("desired"), CloseIf("data"), Goto("error")>>]

\* getifaddrs' list is not in a guard while the tables are made from it.
InterfaceAddresses == [
    main |-> <<Take("list", "error"), Lua, Goto("each")>>,
    each |-> <<Use("list"), Lua, Try("each"), Close("list"), Lua>>]

LinuxPrograms == [
    listdir |-> ListDirectory, readfile |-> ReadFile, readfile_at |-> ReadFileAt,
    read_wifi_link |-> ReadWifiLink, read_nvme_health |-> ReadNvmeHealth,
    read_cpu_perf_limits |-> ReadCpuPerfLimits, read_cpu_clock_counters |-> ReadCpuClockCounters,
    proc_batch |-> ProcBatch, signal_process |-> SignalProcess, recording_open |-> RecordingOpen,
    read_perf_counts |-> ReadPerfCounts, read_drm_mode |-> ReadDrmMode,
    read_usb_interface |-> ReadUsbInterface, read_cpuid |-> ReadCpuid, interface_addresses |-> InterfaceAddresses]

\* A Lua stream belongs to Lua once it is made.
LinuxStatics == {"luafile"}
=============================================================================
