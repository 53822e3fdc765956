-------------------------------- MODULE MCPaths --------------------------------
(***************************************************************************)
(* MCPaths.cfg: Paths over the native functions of the three platforms.    *)
(* Careful are the Linux functions, which keep what they hold in a guard   *)
(* (all but interface_addresses), the Windows functions that gather in C   *)
(* before they touch Lua, and the macOS hardware sources, which all do.    *)
(***************************************************************************)
EXTENDS Paths, LinuxPaths, WindowsPaths, WindowsHardwarePaths, MacPaths, MacHardwarePaths

Unit(p, kept_between, c) == [programs |-> p, statics |-> kept_between, careful |-> c]

MCUnits == [
    linux            |-> Unit(LinuxPrograms, LinuxStatics, DOMAIN LinuxPrograms \ {"interface_addresses"}),
    windows          |-> Unit(BackendPrograms, BackendStatics, {}),
    windows_sources  |-> Unit(HardwarePrograms, HardwareStatics, {}),
    windows_reports  |-> Unit(CarefulPrograms, HardwareStatics, DOMAIN CarefulPrograms),
    macos            |-> Unit(MacPrograms, MacStatics, {}),
    macos_sources    |-> Unit(MacHardwarePrograms, MacHardwareStatics, DOMAIN MacHardwarePrograms),
    macos_gpu        |-> Unit(MacGpuPrograms, MacGpuStatics, DOMAIN MacGpuPrograms),
    macos_energy     |-> Unit(MacEnergyPrograms, MacEnergyStatics, DOMAIN MacEnergyPrograms),
    macos_clock      |-> Unit(MacClockPrograms, MacClockStatics, DOMAIN MacClockPrograms)]
=============================================================================
