------------------------------ MODULE MCGroup -------------------------------
(***************************************************************************)
(* Instances of Group for TLC.  The master shares an entry of its own; the *)
(* first standby shares a directory with a file in it.                     *)
(***************************************************************************)
EXTENDS GroupRefinement, TLC

CONSTANTS s1, s2

\* Two standbys whose names do not clash with the master's or each other's.  The
\* master's directory also has an entry of unknown type.
MCShared ==
    [m \in {Master} \cup Standby |->
        IF m = Master THEN (<<1>> :> "REGULAR" @@ <<4>> :> "UNKNOWN")
        ELSE IF m = s1 THEN (<<2>> :> "DIRECTORY" @@ <<2, 1>> :> "REGULAR")
        ELSE (<<3>> :> "SYMLINK")]

\* The second standby shares a name that the master shares, too.
MCClash ==
    [MCShared EXCEPT ![s2] = (<<1>> :> "DIRECTORY" @@ <<1, 1>> :> "REGULAR")]

=============================================================================
