------------------------------- MODULE Startup -------------------------------
(***************************************************************************)
(* The start of the program (gsfs.cc, option_parser.cc): the command line  *)
(* is checked, the daemon is forked, and UserFS is set up step by step     *)
(* until the filesystem is mounted or the process gives up.  It ends where *)
(* Group and FileAccess begin.                                             *)
(*                                                                         *)
(* A command line is the set of options given and what their values are    *)
(* good for.  Names are numbers as in DirTree.                             *)
(***************************************************************************)
EXTENDS DirTree

CONSTANT Directories    \* contents of a working directory: path -> [type, readable]

VARIABLES cmd,          \* the command line
          pc,           \* where main() is, or how it ended
          parser,       \* the results of parsing
          fs,           \* the UserFS object
          status        \* what the program that was started returned; -1: nothing yet

vars == <<cmd, pc, parser, fs, status>>

Options == {"listen", "connect", "tcp-port", "ssh-port", "mount-point",
            "working-directory", "help", "version"}

\* well_formed: parse_command_line takes it.  address: from_string takes it.
\* readable: the working directory can be looked at and opened.
CommandLine ==
    [given : SUBSET Options, well_formed : BOOLEAN, address : BOOLEAN,
     mount_point : {"directory", "file", "missing"},
     working_dir : {"directory", "file", "missing"}, readable : BOOLEAN,
     contents : Directories]

\* OptionParser::parse: "throws", "shown" for help or version, or "runs".
Parsed(c) ==
    IF ~c.well_formed THEN "throws"
    ELSE IF c.given \in {{}, {"help"}, {"version"}} THEN "shown"
    ELSE IF \/ {"listen", "connect"} \subseteq c.given
            \/ {"help", "version"} \cap c.given # {}
            \/ {"listen", "connect"} \cap c.given = {}
            \/ ~c.address
            \/ "tcp-port" \notin c.given
            \/ "mount-point" \notin c.given
            \/ c.mount_point # "directory"
            \/ "working-directory" \notin c.given
            \/ c.working_dir # "directory"
    THEN "throws" ELSE "runs"

\* A UserFS object as its constructor leaves it.
NewUserFS == [host_id |-> 0, working_dir |-> "unset", tree |-> << >>, hosts |-> << >>]

Init ==
    /\ cmd \in CommandLine
    /\ pc = "parse"
    /\ parser = [is_master |-> FALSE, is_standby |-> FALSE, ssh_port |-> "unset"]
    /\ fs = NewUserFS
    /\ status = -1

----------------------------------------------------------------------------
\* The command line is parsed; main returns 1 if that throws.
Parse ==
    /\ pc = "parse"
    /\ \/ /\ Parsed(cmd) = "runs"
          /\ parser' = [is_master |-> "listen" \in cmd.given,
                        is_standby |-> "listen" \notin cmd.given,
                        ssh_port |-> IF "ssh-port" \in cmd.given THEN "given" ELSE "22"]
          /\ pc' = "fork"
          /\ UNCHANGED status
       \/ /\ Parsed(cmd) = "shown"
          /\ pc' = "fork"
          /\ UNCHANGED <<parser, status>>
       \/ /\ Parsed(cmd) = "throws"
          /\ pc' = "refused" /\ status' = 1
          /\ UNCHANGED parser
    /\ UNCHANGED <<cmd, fs>>

\* Without a role there is nothing to run.  Otherwise the parent returns and the
\* child goes on.
Fork ==
    /\ pc = "fork"
    /\ pc' = IF parser.is_master \/ parser.is_standby THEN "set master" ELSE "told"
    /\ status' = 0
    /\ UNCHANGED <<cmd, parser, fs>>

SetMaster ==
    /\ pc = "set master"
    /\ fs' = IF parser.is_master THEN [fs EXCEPT !.host_id = 1] ELSE fs
    /\ pc' = "dir tree"
    /\ UNCHANGED <<cmd, parser, status>>

\* The working directory is walked.  Each entry of a known type has to be readable:
\* last_write_time and hard_link_count throw if it is gone or a link to nothing,
\* file_size for what is neither a regular file nor a link to one, and the iterator
\* for a directory that cannot be opened.
InitTree ==
    LET types  == [p \in DOMAIN cmd.contents |-> cmd.contents[p].type]
        throws == \/ ~cmd.readable
                  \/ \E p \in DOMAIN types : types[p] \in FileTypes /\ ~cmd.contents[p].readable
    IN  /\ pc = "dir tree"
        /\ \/ /\ throws
              /\ pc' = "not shared"
              /\ UNCHANGED fs
           \/ /\ ~throws
              /\ fs' = [fs EXCEPT !.working_dir = "absolute path",
                                  !.tree = InitDirTree(types, fs.host_id)]
              /\ pc' = "host"
        /\ UNCHANGED <<cmd, parser, status>>

InitHost ==
    /\ pc = "host"
    /\ fs' = [fs EXCEPT !.hosts = <<[id |-> fs.host_id, working_dir |-> fs.working_dir,
                                     ssh_port |-> parser.ssh_port]>>]
    /\ pc' = "network"
    /\ UNCHANGED <<cmd, parser, status>>

\* initTCPNetwork: the address may not resolve.  From here on see Group.
InitNetwork ==
    /\ pc = "network"
    /\ pc' \in {"no network", "mounted"}
    /\ UNCHANGED <<cmd, parser, fs, status>>

Next == Parse \/ Fork \/ SetMaster \/ InitTree \/ InitHost \/ InitNetwork

Spec == Init /\ [][Next]_vars

----------------------------------------------------------------------------
(* Properties.                                                             *)

\* What the README asks of a command line.
Acceptable(c) ==
    /\ c.well_formed /\ c.address
    /\ c.mount_point = "directory" /\ c.working_dir = "directory"
    /\ \E role \in {"listen", "connect"} :
         c.given \ {"ssh-port"} = {role, "tcp-port", "mount-point", "working-directory"}

\* A daemon is started for exactly the command lines that the README describes, and
\* the others, but for a single request for help or the version, return an error
\* (the checks of OptionParser::parse in their order).
AcceptsExactly ==
    /\ pc \notin {"parse", "fork", "refused", "told"} => Acceptable(cmd)
    /\ status = 1 => ~Acceptable(cmd)
    /\ pc = "told" => cmd.given \in {{}, {"help"}, {"version"}}

\* When the network thread starts, the id, the owner of every node and the host entry
\* agree with the role, and the entry has the working directory and the SSH port that
\* others need (the order of setMaster, initDirTree and initHost in main()).
ReadyToJoin ==
    pc \in {"network", "mounted"} =>
        /\ fs.host_id = IF "listen" \in cmd.given THEN 1 ELSE 0
        /\ \A p \in DOMAIN fs.tree : fs.tree[p].host_id = fs.host_id
        /\ fs.hosts = <<[id |-> fs.host_id, working_dir |-> "absolute path",
                         ssh_port |-> IF "ssh-port" \in cmd.given THEN "given" ELSE "22"]>>

=============================================================================
