---------------------------- MODULE MCDefinitions ----------------------------
(***************************************************************************)
(* Two processes of the API and one worker beside the materializer, a      *)
(* definition with two outputs and two commits, one of which a window of   *)
(* one time leaves out.                                                    *)
(***************************************************************************)
EXTENDS Definitions, TLC

CONSTANTS request, r1, r2, w1

MCOutputs == request :> <<"route", "status">>
Processes == Permutations({r1, r2})
MCWindows == {<<1, 1>>, <<1, 2>>}

\* The first or the second commit is outside of the smaller window; an earlier release
\* has been there in the first case.
MCInit ==
    /\ Init
    /\ \/ lake = <<1, 2>> /\ rows = <<EarlierSeed>>
       \/ lake = <<2, 1>> /\ rows = <<>>
MCSpec == MCInit /\ [][Next]_vars
===============================================================================
