---------------------------- MODULE MCInstaller -----------------------------
(***************************************************************************)
(* Two tools.  One has the routes of httpx, with another package manager   *)
(* and a second build command, and its identity is checked; the other has  *)
(* those of sslyze, without a check.                                       *)
(***************************************************************************)
EXTENDS Installer

MCPackages == ("httpx" :> <<"go", "apt-get">>) @@ ("sslyze" :> <<"pipx">>)
MCBuilds   == ("httpx" :> 2) @@ ("sslyze" :> 0)
MCAll      == <<"httpx", "sslyze">>
MCPaths    == {<<"elsewhere", "apt-get">>, <<"bin", "go", "elsewhere">>}
MCUsables  == {{}, {"go", "apt-get", "pipx", "source"}, {"pipx", "source"}, {"apt-get", "source"}}
=============================================================================
