------------------------------ MODULE MCMount ------------------------------
(***************************************************************************)
(* A small instance of Mount: the ways to write the directory down, and    *)
(* two processes that edit the configuration file.                         *)
(***************************************************************************)
EXTENDS Mount, TLC

\* "d,ro" is a directory; "m,ro" is a link to "m", and "ro" an option of libfuse.
MCDirs == {<<>>, <<"d">>, <<"d,ro">>, <<"m">>, <<"home">>, <<"home", "d">>}
MCLinks == (<<"l">> :> <<"d">>) @@ (<<"m,ro">> :> <<"m">>)
MCStem == ("d,ro" :> "d") @@ ("m,ro" :> "m")
MCHome == <<"home">>

Basedirs ==
    {NULL, <<"/">>, <<"/", "d">>, <<"/", "d", "/">>, <<"/", "/", "d">>,
     <<"/", "/">>, <<"/", "d", "/", "/">>, <<"d">>, <<".">>, <<"/", "l">>,
     <<"/", "none">>, <<"/", "home", "/", "d">>, <<"/", "d,ro">>, <<"/", "m,ro">>}

MCArgs ==
    [basedir : Basedirs, info : {FALSE}, foreground : BOOLEAN]
    \cup {[basedir |-> NULL, info |-> TRUE, foreground |-> FALSE]}

Symmetry == Permutations(Procs)
============================================================================
