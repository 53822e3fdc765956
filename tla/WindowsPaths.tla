------------------------------ MODULE WindowsPaths ------------------------------
(***************************************************************************)
(* The Windows backend (wtop_windows.c) as programs for Paths.  Memory     *)
(* comes from malloc; there is no guard here, so a Lua error may lose it.  *)
(***************************************************************************)
EXTENDS Sequences, TLC, PathSteps

\* utf8_path: the wide path is freed before the argument is refused.
PathArgument == <<Lua, Lua, Lua, Take("path", "raised"), Fail("badpath")>>
BadPath      == <<Close("path"), Goto("raised")>>

\* push_utf8: an empty text when nothing can be converted.
PushText == <<Attempt("text"), Lua, CloseIf("text"), Lua>>

WithPath(rest) == [main |-> PathArgument \o rest, badpath |-> BadPath]

AccessPath    == WithPath(<<Use("path"), Close("path"), Lua>>)
PathType      == WithPath(<<Use("path"), Close("path"), Fail("error"), Lua>>)
MakeDirectory == WithPath(<<Use("path"), Try("made"), Use("path"), Close("path"), Fail("error"), Lua>>)
                 @@ [made |-> <<Close("path"), Lua>>]

ReadEnvironment == [
    main |-> <<Lua, Lua, Fail("value"), Take("value", "raised"), Use("value"), Fail("gone")>>
             \o PushText \o <<Close("value")>>,
    gone |-> <<Close("value"), Lua>>]

ReadWindowsFile == WithPath(
    <<Lua, Lua, Use("path"), Take("file", "unopened"), Close("path"), Use("file"), Fail("refused"),
      Fail("refused"), Take("buffer", "nobuffer"), Goto("each")>>)
    @@ [each     |-> <<Use("file"), Use("buffer"), Fail("unread"), Try("each"), Close("file"), Fail("large"), Lua, Close("buffer")>>,
        unopened |-> <<Close("path"), Goto("error")>>,
        refused  |-> <<Close("file"), Goto("error")>>,
        nobuffer |-> <<Close("file"), Goto("raised")>>,
        unread   |-> <<Close("buffer"), Close("file"), Goto("error")>>,
        large    |-> <<Close("buffer"), Goto("error")>>]

ListWindowsDirectory == WithPath(
    <<Lua, Lua, Use("path"), Fail("refused"), Take("pattern", "nopattern"), Use("path"), Close("path"),
      Use("pattern"), Take("search", "unfound"), Close("pattern"), Lua, Goto("each")>>)
    @@ [each      |-> <<Use("search"), Try("next"), Try("last")>> \o PushText \o <<Goto("next")>>,
        next      |-> <<Use("search"), Try("each"), Goto("last")>>,
        last      |-> <<Close("search"), Lua>>,
        refused   |-> <<Close("path"), Goto("error")>>,
        nopattern |-> <<Close("path"), Goto("raised")>>,
        unfound   |-> <<Close("pattern"), Fail("error"), Lua>>]

WriteAtomically == WithPath(
    <<Lua, Take("temporary", "nomemory"), Lua, Goto("create")>>)
    @@ [create   |-> <<Use("temporary"), Take("file", "again"), Goto("write")>>,
        again    |-> <<Try("create"), Goto("failed")>>,
        write    |-> <<Use("file"), Fail("failed"), Try("write"), Use("file"), Fail("failed"), Close("file"), Fail("failed"),
                       Use("temporary"), Fail("failed"), Close("temporary"), Close("path"), Lua>>,
        nomemory |-> <<Close("path"), Goto("raised")>>,
        failed   |-> <<CloseIf("file"), Close("temporary"), Close("path"), Goto("error")>>]

\* The console's second screen, its raw mode and its being shown are kept
\* between calls: `terminal.mode' says whether they are.
RestoreConsole == <<CloseIf("shown"), CloseIf("rawmode"), CloseIf("alternate"), CloseIf("stream")>>

StartConsole == [
    main      |-> <<If("alternate", "value"), If("stream", "value"), Try("classic"), Take("stream", "error"), Goto("registers")>>,
    classic   |-> <<Fail("error"), Take("screen", "error"), Use("screen"), Take("rawmode", "unmade"), Take("shown", "unset"),
                    Turn("screen", "alternate"), Goto("registers")>>,
    registers |-> <<Fail("undone"), Lua>>,
    unmade    |-> <<Close("screen"), Goto("error")>>,
    unset     |-> <<Close("rawmode"), Close("screen"), Goto("error")>>,
    undone    |-> RestoreConsole \o <<Goto("error")>>]

StopConsole == [main |-> RestoreConsole \o <<Lua>>]

IsAdministrator == [
    main |-> <<Take("group", "error"), Use("group"), Fail("failed"), Close("group"), Lua>>,
    failed |-> <<Close("group"), Goto("error")>>]

TerminateWindowsProcess == [
    main   |-> <<Lua, Fail("error"), Lua, Take("process", "error"), Use("process"), Fail("failed"), Fail("failed"),
                 Use("process"), Fail("failed"), Close("process"), Lua>>,
    failed |-> <<Close("process"), Goto("error")>>]

CollectProcessIo == [
    main   |-> <<Lua, Lua, Take("process", "second"), Goto("query")>>,
    second |-> <<Take("process", "error"), Goto("query")>>,
    query  |-> <<Use("process"), Fail("failed"), Fail("failed"), Use("process"), Fail("failed"), Close("process"), Lua>>,
    failed |-> <<Close("process"), Goto("error")>>]

\* process_user: token and text are released before the name is used.
ProcessUser == <<Attempt("token"), CloseIf("token"), Attempt("sidtext"), CloseIf("sidtext")>>

CollectProcessLegacy == [
    main  |-> <<Take("snapshot", "error"), Lua, Use("snapshot"), Try("each"), Goto("last")>>,
    each  |-> <<Try("next"), Try("last"), Take("process", "row"), Use("process")>> \o ProcessUser
              \o <<Close("process"), Goto("row")>>,
    row   |-> <<Lua>> \o PushText \o <<Goto("next")>>,
    next  |-> <<Use("snapshot"), Try("each"), Goto("last")>>,
    last  |-> <<Close("snapshot"), Lua>>]

\* query_bulk_processes: one buffer for all calls, which realloc may move.
QueryBulkProcesses(asked, no) == [
    main |-> <<Try(no), If("bulk", "ask"), Take("bulk", no), Goto("ask")>>,
    ask  |-> <<Use("bulk"), Try(asked), Fail(no), Fail(no), Turn("bulk", "bulk"), Try("ask"), Goto(no)>>]

CollectProcess == QueryBulkProcesses("rows", "value") @@ [
    rows |-> <<Lua, Use("bulk"), Try("opened"), Goto("row")>>,
    opened |-> <<Take("process", "row"), Use("process")>> \o ProcessUser \o <<Close("process"), Goto("row")>>,
    row  |-> <<Use("bulk"), Lua>> \o PushText \o <<Try("rows"), Lua>>]

BackendPrograms == [
    access |-> AccessPath, path_type |-> PathType, mkdir |-> MakeDirectory, getenv |-> ReadEnvironment,
    readfile |-> ReadWindowsFile, listdir |-> ListWindowsDirectory, atomic_write |-> WriteAtomically,
    terminal_start |-> StartConsole, terminal_stop |-> StopConsole, is_admin |-> IsAdministrator,
    signal_process |-> TerminateWindowsProcess, collect_process_io |-> CollectProcessIo,
    collect_process_legacy |-> CollectProcessLegacy, collect_process |-> CollectProcess]

BackendStatics == {"alternate", "rawmode", "shown", "stream", "bulk"}
=============================================================================
