--------------------------- MODULE GuiShutdownMC ---------------------------
(* The screens of the shell for TLC: Acquire and Identify, which scan for   *)
(* devices and can be cancelled, Verify hash, which cannot, and Exploit,    *)
(* whose annotation runs on a thread of its own.                            *)
EXTENDS GuiShutdown

CONSTANTS Acquire, Identify, VerifyHash, Exploit

ShellScreens == {Acquire, Identify, VerifyHash, Exploit}
ShellHosts == {Acquire, Identify, VerifyHash}
Controlled == {Acquire, Identify}
=============================================================================
