---------------------------- MODULE MacHardwarePaths ----------------------------
(***************************************************************************)
(* The hardware sources of macOS (wtop_macos_*.c) as programs for Paths.   *)
(* They all promise to hold no reference while Lua may raise.  A C         *)
(* function that is called from several places is a block of its own; a    *)
(* call that finds nothing leaves the resource it is for unacquired.       *)
(***************************************************************************)
EXTENDS Sequences, TLC, PathSteps

Returns == [back |-> <<Back>>]

\* A search consumes the dictionary that describes it.
Search(found, no) == <<Take("matching", no), Close("matching"), Take(found, no)>>

-----------------------------------------------------------------------------
\* wtop_macos_registry.h

UniqueParent(parent) ==
    <<Attempt("parents"), Attempt(parent), Attempt("extra"), CloseIf("extra"), CloseIf("parents"), Check(parent)>>

RegistryPath == [
    path     |-> <<Try("back"), Goto("ancestor")>>,
    ancestor |-> UniqueParent("parent") \o <<CloseIf("cursor"), If("parent", "above"), Back>>,
    above    |-> <<Use("parent"), Try("root"), Try("seen"), Turn("parent", "cursor"), Try("ancestor"), Close("cursor"), Back>>,
    root     |-> <<Attempt("root"), CloseIf("root"), Close("parent"), Back>>,
    seen     |-> <<Close("parent"), Back>>]

RegistryParent == [parent_of |-> <<Do("path"), Try("back"), Do("path"), Back>>] @@ RegistryPath @@ Returns

-----------------------------------------------------------------------------
\* wtop_macos_smc.c: the connection is kept, and dropped when a call fails.

SmcCall == <<Use("smc"), Try("smc_close"), Try("back")>>

SmcOpen == [
    smc    |-> <<If("smc", "number"), Try("back"), Take("service", "back"), Attempt("opened"), Close("service"), If("opened", "opened"), Back>>,
    opened |-> <<Try("unsound"), Turn("opened", "smc"), Goto("number")>>,
    unsound |-> <<Close("opened"), Back>>]

SmcNumber == [number |-> SmcCall \o SmcCall \o <<Back>>, smc_close |-> <<Close("smc"), Back>>] @@ SmcOpen @@ Returns

-----------------------------------------------------------------------------
\* wtop_macos_cpu.c: buffers of the kernel; a bad one is released as well.

GetBuffer(buffer) == <<Attempt(buffer), Try("release")>>

ReleaseBuffer(buffer) == <<CloseIf(buffer)>>

CollectMacCpu == [
    main    |-> <<Lua, Once("host"), Fail("error")>> \o GetBuffer("first") \o GetBuffer("loads") \o GetBuffer("last")
                \o <<Goto("release")>>,
    release |-> ReleaseBuffer("last") \o ReleaseBuffer("loads") \o ReleaseBuffer("first") \o <<Lua>>]

CollectMacCpuInfo == [
    main    |-> <<Lua, Once("host")>> \o GetBuffer("first") \o GetBuffer("last") \o <<Goto("release")>>,
    release |-> ReleaseBuffer("last") \o ReleaseBuffer("first") \o <<Fail("error"), Lua>>]

-----------------------------------------------------------------------------
\* wtop_macos_disk.c

Property(value) == <<Attempt(value), Check(value)>>

BsdName == Property("name") \o <<CloseIf("name")>>

WholeMedia == [
    whole       |-> <<Take("children", "back"), Goto("child")>>,
    child       |-> <<Use("children"), Attempt("entry"), If("entry", "media_child"), Goto("whole_end")>>,
    media_child |-> <<Try("too_many"), Try("not_media")>> \o Property("is_whole")
                    \o <<CloseIf("is_whole"), Try("not_media"), If("media", "not_media"), Turn("entry", "media"), Goto("child")>>,
    not_media   |-> <<Close("entry"), Goto("child")>>,
    too_many    |-> <<Close("entry"), Goto("whole_end")>>,
    whole_end   |-> <<Close("children"), Check("media"), Back>>]

MediaOwnerKeeping == UniqueParent("owner")      \* a mistake: the parent is not released

MediaOwner == UniqueParent("owner") \o <<CloseIf("owner")>>

MediaWhole == Property("is_whole") \o <<CloseIf("is_whole")>>

ReadRow == [
    row     |-> <<Try("back")>> \o MediaOwner \o <<Try("back")>> \o BsdName \o <<Try("back")>>
                \o Property("statistics") \o Property("size") \o Property("removable")
                \o UniqueParent("device") \o <<If("device", "device"), Goto("recheck")>>,
    device  |-> <<Try("recheck")>> \o Property("characteristics") \o Property("protocol") \o <<Goto("recheck")>>,
    recheck |-> <<Do("parent_of")>> \o MediaWhole \o MediaOwner \o BsdName \o <<If("device", "again"), Goto("row_end")>>,
    again   |-> UniqueParent("after_device") \o <<Goto("row_end")>>,
    row_end |-> <<CloseIf("statistics"), CloseIf("characteristics"), CloseIf("protocol"), CloseIf("size"), CloseIf("removable"),
                  CloseIf("device"), CloseIf("after_device"), Back>>]

CollectRows == [
    rows   |-> Search("drivers", "error") \o <<Goto("each")>>,
    each   |-> <<Use("drivers"), Attempt("driver"), If("driver", "driver"), Close("drivers"), Back>>,
    driver |-> <<Try("enough"), Do("whole"), If("media", "media"), Goto("next")>>,
    media  |-> <<Try("next"), Do("row"), Goto("next")>>,
    next   |-> <<CloseIf("media"), Close("driver"), Goto("each")>>,
    enough |-> <<Close("driver"), Close("drivers"), Back>>]

\* "No OS resource survives into Lua result construction, including OOM."
CollectMacDisk == [main |-> <<Lua, Do("rows"), Lua>>] @@ CollectRows @@ ReadRow @@ WholeMedia @@ RegistryParent

-----------------------------------------------------------------------------
\* wtop_macos_displays.c

CaptureDisplay == <<Attempt("uuid"), CloseIf("uuid"), Attempt("mode"), CloseIf("mode")>>

CollectMacDisplays == [
    main   |-> <<Lua, Fail("rows"), Goto("first")>>,
    first  |-> CaptureDisplay \o <<Try("first"), Goto("second")>>,
    second |-> CaptureDisplay \o <<Try("second"), Goto("rows")>>,
    rows   |-> <<Lua>>]

-----------------------------------------------------------------------------
\* wtop_macos_inventory.c

PropertyText == <<Attempt("decoded"), CloseIf("decoded")>>

CollectBus == [
    bus       |-> Search("devices", "back") \o <<Goto("each")>>,
    each      |-> <<Use("devices"), Attempt("entry"), If("entry", "entry"), Close("devices"), Back>>,
    entry     |-> <<Try("enough"), Try("next"), Attempt("properties"), Try("unread"), If("properties", "read"), Goto("next")>>,
    unread    |-> <<CloseIf("properties"), Goto("next")>>,
    read      |-> PropertyText \o <<Use("properties")>> \o PropertyText \o <<Do("parent_of"), Close("properties"), Goto("next")>>,
    next      |-> <<Close("entry"), Goto("each")>>,
    enough    |-> <<Close("entry"), Close("devices"), Back>>]

CollectMacInventory == [main |-> <<Lua, Do("bus"), Do("bus"), Lua>>] @@ CollectBus @@ RegistryParent

-----------------------------------------------------------------------------
\* wtop_macos_net.c

RegistryName == <<Attempt("name"), CloseIf("name")>>

CollectOwners == [
    owners   |-> Search("interfaces", "back") \o <<Goto("each")>>,
    each     |-> <<Use("interfaces"), Attempt("entry"), If("entry", "entry"), Close("interfaces"), Back>>,
    entry    |-> <<Try("enough"), Try("next")>> \o RegistryName \o <<Try("next"), Do("parent_of")>> \o RegistryName
                 \o <<Try("next")>> \o UniqueParent("provider") \o <<If("provider", "provider"), Goto("next")>>,
    provider |-> <<Attempt("bundle"), CloseIf("bundle"), Close("provider"), Goto("next")>>,
    next     |-> <<Close("entry"), Goto("each")>>,
    enough   |-> <<Close("entry"), Close("interfaces"), Back>>]

\* The route buffer is memory of Lua's own.
CollectMacNetwork == [
    main    |-> <<Lua, Fail("error"), Goto("attempt")>>,
    attempt |-> <<Lua, Do("owners"), Try("attempt"), Fail("error"), Do("owners"), Lua>>] @@ CollectOwners @@ RegistryParent

-----------------------------------------------------------------------------
\* wtop_macos_ioreport.c: each source has a set of its own, which is kept.

Own(source, what) == source \o what

ResetReport(source) == <<CloseIf(Own(source, " previous")), CloseIf(Own(source, " metadata")), CloseIf(Own(source, " subscription")),
                         CloseIf(Own(source, " subscribed")), CloseIf(Own(source, " channels"))>>

Ready == <<Once("ioreport"), Try("back")>>

Metadata == [
    metadata |-> <<Take("keys", "back"), Try("spoilt"), Take("result", "spoilt"), Goto("freeze")>>,
    freeze   |-> <<Try("all"), Try("spoilt"), Take("identity", "spoilt"), Attempt("frozen"), Close("identity"),
                   If("frozen", "append"), Goto("spoilt")>>,
    append   |-> <<Close("frozen"), Goto("freeze")>>,
    all      |-> <<Close("keys"), Back>>,
    spoilt   |-> <<CloseIf("result"), Close("keys"), Back>>]

OpenSet(source) == [
    open_set  |-> <<If(Own(source, " subscription"), "back")>> \o Ready \o
                  <<Take("found", "back"), Try("nothing"), Attempt(Own(source, " channels")), Close("found"),
                    If(Own(source, " channels"), "subscribe"), Back>>,
    nothing   |-> <<Close("found"), Back>>,
    subscribe |-> <<Attempt(Own(source, " subscription")), Attempt(Own(source, " subscribed")),
                    If(Own(source, " subscription"), "checked"), Goto("reset")>>,
    checked   |-> <<Try("reset"), Back>>,
    reset     |-> ResetReport(source) \o <<Back>>]

\* `owner' is what the caller has to release: the first sample or a delta.
Sample(source) == [
    sample   |-> <<Do("open_set"), If(Own(source, " subscription"), "current"), Back>>,
    current  |-> <<Use(Own(source, " subscription")), Attempt("current"), If("current", "items"), Goto("failed")>>,
    items    |-> <<Try("failed"), Do("metadata"), If("result", "told"), Goto("failed")>>,
    told     |-> <<Turn("result", "current_metadata"), Try("failed"), If(Own(source, " previous"), "compare"), Retain("owner"), Goto("replace")>>,
    compare  |-> <<Try("failed"), Attempt("delta"), If("delta", "changes"), Goto("failed")>>,
    changes  |-> <<Try("failed"), Do("metadata"), If("result", "same"), Goto("failed")>>,
    same     |-> <<Turn("result", "delta_metadata"), Try("failed"), Turn("delta", "owner"), Goto("replace")>>,
    replace  |-> <<CloseIf(Own(source, " previous")), CloseIf(Own(source, " metadata")), Turn("current", Own(source, " previous")),
                   Turn("current_metadata", Own(source, " metadata")), CloseIf("delta_metadata"), Back>>,
    failed   |-> <<CloseIf("delta_metadata"), CloseIf("current_metadata"), CloseIf("delta"), CloseIf("current"), Goto("reset")>>]
    @@ OpenSet(source) @@ Metadata @@ Returns

-----------------------------------------------------------------------------
\* wtop_macos_report.c

ReadDvfsTable == [
    dvfs      |-> Search("managers", "back") \o <<Attempt("key"), If("key", "manager"), Goto("dvfs_end")>>,
    manager   |-> <<Use("managers"), Attempt("pmgr"), If("pmgr", "pmgr"), Goto("dvfs_end")>>,
    pmgr      |-> <<Try("pmgr_last"), Attempt("data"), CloseIf("data"), Close("pmgr"), Goto("manager")>>,
    pmgr_last |-> <<Close("pmgr"), Goto("dvfs_end")>>,
    dvfs_end  |-> <<CloseIf("key"), Close("managers"), Back>>]

GpuFrequency == [
    frequency |-> <<Try("changed"), Goto("table")>>,
    changed   |-> ResetReport("gpu") \o <<Goto("table")>>,
    table     |-> <<Try("back"), Try("clock"), Do("dvfs"), Try("clock"), Goto("reset")>>,
    clock     |-> <<Do("sample"), CloseIf("owner"), Back>>] @@ ReadDvfsTable @@ Sample("gpu")

CollectPowercap == [main |-> <<Do("sample"), CloseIf("owner"), Do("smc"), Lua, Fail("error"), Lua>>] @@ Sample("energy") @@ SmcNumber

CollectCpufreq == [
    main     |-> <<Do("sample"), If("owner", "tables"), Goto("error")>>,
    tables   |-> <<Try("clusters"), Do("dvfs"), Do("dvfs"), Try("missing"), Goto("clusters")>>,
    missing  |-> <<Close("owner"), Do("reset"), Goto("error")>>,
    clusters |-> <<Use("owner"), Close("owner"), Lua, Fail("error"), Lua>>] @@ ReadDvfsTable @@ Sample("cpu")

-----------------------------------------------------------------------------
\* wtop_macos_gpu.c

Capture == [
    capture     |-> Search("accelerators", "error") \o <<Goto("each")>>,
    each        |-> <<Use("accelerators"), Attempt("entry"), If("entry", "accelerator"), Close("accelerators"), Back>>,
    accelerator |-> <<Try("enough"), Try("invalid"), Do("parent_of"), Try("invalid"),
                      Attempt("properties"), If("properties", "read"), Goto("invalid")>>,
    read        |-> <<Try("unread"), Use("properties"), Attempt("confirmed"), If("confirmed", "confirmed"), Goto("unread")>>,
    confirmed   |-> <<Try("dropped"), Do("parent_of"), Goto("dropped")>>,
    dropped     |-> <<Close("confirmed"), Goto("unread")>>,
    unread      |-> <<Close("properties"), Goto("invalid")>>,
    invalid     |-> <<Close("entry"), Goto("each")>>,
    enough      |-> <<Close("entry"), Close("accelerators"), Back>>]

\* The chosen accelerator is looked up again after its clock was read.
Current == [still |-> Search("entry", "back") \o <<Try("gone"), Do("parent_of"), Goto("gone")>>, gone |-> <<Close("entry"), Back>>]

CollectMacGpu == [
    main  |-> <<Lua, Do("capture"), Do("frequency"), Try("rows"), Do("still"), Goto("rows")>>,
    rows  |-> <<Lua>>] @@ Capture @@ Current @@ GpuFrequency @@ RegistryParent

-----------------------------------------------------------------------------
\* wtop_macos_sensors.c

HidProduct == <<Attempt("product"), CloseIf("product")>>

HidCurrent == [hid_current |-> Search("service", "back") \o <<Close("service"), Back>>]

HidRead == [
    hid      |-> <<Try("back"), Attempt("client"), If("client", "query"), Goto("hid_end")>>,
    query    |-> <<Attempt("page"), Attempt("usage"), Try("hid_end"), Attempt("wanted"), If("wanted", "services"), Goto("hid_end")>>,
    services |-> <<Use("client"), Attempt("services"), If("services", "service"), Goto("hid_end")>>,
    service  |-> <<Use("services"), Try("hid_end")>> \o HidProduct \o <<Try("service"), Attempt("event"), If("event", "event"), Goto("service")>>,
    event    |-> <<Close("event"), Try("service"), Do("hid_current"), Try("service")>> \o HidProduct \o <<Goto("service")>>,
    hid_end  |-> <<CloseIf("services"), CloseIf("wanted"), CloseIf("page"), CloseIf("usage"), CloseIf("client"), Back>>]

CollectMacHwmon == [
    main  |-> <<Lua, Do("hid"), Lua, Goto("rails")>>,
    rails |-> <<Do("smc"), Lua, Try("rails"), Fail("error"), Lua>>] @@ HidRead @@ HidCurrent @@ SmcNumber @@ Returns

MacHardwarePrograms == [
    collect_cpu |-> CollectMacCpu, collect_cpu_info |-> CollectMacCpuInfo, collect_disk |-> CollectMacDisk,
    collect_displays |-> CollectMacDisplays, collect_inventory |-> CollectMacInventory, collect_network |-> CollectMacNetwork,
    collect_hwmon |-> CollectMacHwmon]

\* Each report source has a subscription of its own.
MacGpuPrograms    == [collect_gpu |-> CollectMacGpu]
MacEnergyPrograms == [collect_powercap |-> CollectPowercap]
MacClockPrograms  == [collect_cpufreq |-> CollectCpufreq]

MacHardwareStatics == {"host", "smc"}
ReportStatics(source) ==
    {"ioreport", "smc"} \cup
    {Own(source, what) : what \in {" previous", " metadata", " subscription", " subscribed", " channels"}}
MacGpuStatics     == ReportStatics("gpu")
MacEnergyStatics  == ReportStatics("energy")
MacClockStatics   == ReportStatics("cpu")
=============================================================================
