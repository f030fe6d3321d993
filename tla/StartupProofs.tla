--------------------------- MODULE StartupProofs ----------------------------
(***************************************************************************)
(* Which command lines start a daemon, and in which state it joins a       *)
(* group, for every command line and every working directory.              *)
(***************************************************************************)
EXTENDS Startup, TLAPS

\* What parse() leaves for a command line that is accepted.
ParserFor(c) ==
    [is_master |-> "listen" \in c.given, is_standby |-> "listen" \notin c.given,
     ssh_port |-> IF "ssh-port" \in c.given THEN "given" ELSE "22"]

IdFor(c) == IF "listen" \in c.given THEN 1 ELSE 0

\* The UserFS object after each of the calls of main().
ObjectOK ==
    /\ DOMAIN fs = {"host_id", "working_dir", "tree", "hosts"}
    /\ pc \in {"parse", "fork", "set master"} => fs.host_id = 0
    /\ pc \in {"dir tree", "host", "network", "mounted"} => fs.host_id = IdFor(cmd)
    /\ pc \in {"host", "network", "mounted"} =>
         /\ fs.working_dir = "absolute path"
         /\ \A p \in DOMAIN fs.tree : fs.tree[p].host_id = fs.host_id
    /\ pc \in {"network", "mounted"} =>
         fs.hosts = <<[id |-> fs.host_id, working_dir |-> "absolute path",
                       ssh_port |-> ParserFor(cmd).ssh_port]>>

\* How far the program gets depends on what the parser said.
RouteOK ==
    /\ cmd \in CommandLine
    /\ pc = "parse" => ~parser.is_master /\ ~parser.is_standby
    /\ pc = "fork" => \/ Parsed(cmd) = "runs" /\ parser = ParserFor(cmd)
                      \/ /\ Parsed(cmd) = "shown"
                         /\ ~parser.is_master /\ ~parser.is_standby
    /\ pc = "told" => Parsed(cmd) = "shown"
    /\ pc \notin {"parse", "fork", "refused", "told"} =>
         Parsed(cmd) = "runs" /\ parser = ParserFor(cmd)
    /\ status = 1 => Parsed(cmd) = "throws"

StartInv == ObjectOK /\ RouteOK

----------------------------------------------------------------------------
\* The checks of parse(), in their order, let pass exactly what the README asks for.
LEMMA ParsedRuns ==
    ASSUME NEW c \in CommandLine
    PROVE  Parsed(c) = "runs" <=> Acceptable(c)
<1>0. c.given \subseteq Options
  BY DEF CommandLine
<1>1. ASSUME Parsed(c) = "runs" PROVE Acceptable(c)
  <2>1. /\ c.well_formed /\ c.address
        /\ c.mount_point = "directory" /\ c.working_dir = "directory"
        /\ ~({"listen", "connect"} \subseteq c.given)
        /\ {"help", "version"} \cap c.given = {}
        /\ {"listen", "connect"} \cap c.given # {}
        /\ {"tcp-port", "mount-point", "working-directory"} \subseteq c.given
    BY <1>1 DEF Parsed
  <2>2. PICK role \in {"listen", "connect"} : role \in c.given
    BY <2>1
  <2>3. c.given \ {"ssh-port"} = {role, "tcp-port", "mount-point", "working-directory"}
    BY <1>0, <2>1, <2>2 DEF Options
  <2> QED BY <2>1, <2>3 DEF Acceptable
<1>2. ASSUME Acceptable(c) PROVE Parsed(c) = "runs"
  <2>1. PICK role \in {"listen", "connect"} :
          c.given \ {"ssh-port"} = {role, "tcp-port", "mount-point", "working-directory"}
    BY <1>2 DEF Acceptable
  <2>2. /\ {role, "tcp-port", "mount-point", "working-directory"} \subseteq c.given
        /\ c.given \subseteq {role, "tcp-port", "mount-point", "working-directory", "ssh-port"}
    BY <2>1
  <2>3. /\ c.given \notin {{}, {"help"}, {"version"}}
        /\ ~({"listen", "connect"} \subseteq c.given)
        /\ {"help", "version"} \cap c.given = {}
        /\ {"listen", "connect"} \cap c.given # {}
    BY <2>2
  <2> QED BY <1>2, <2>2, <2>3 DEF Parsed, Acceptable
<1> QED BY <1>1, <1>2

\* initDirTree gives every node the id of the object.
LEMMA TreeOwner ==
    ASSUME NEW types, NEW id, NEW p \in DOMAIN InitDirTree(types, id)
    PROVE  InitDirTree(types, id)[p].host_id = id
  BY DEF InitDirTree

\* The program starts with a new object and nothing parsed.
LEMMA StartInit == Init => StartInv
  BY DEF Init, StartInv, ObjectOK, RouteOK, NewUserFS

\* Every step of main() keeps StartInv.
LEMMA StartNext == StartInv /\ [Next]_vars => StartInv'
<1> SUFFICES ASSUME StartInv, [Next]_vars PROVE StartInv'
  OBVIOUS
<1> USE DEF StartInv
<1>0. UNCHANGED <<cmd, Parsed(cmd), ParserFor(cmd), IdFor(cmd)>>
  <2>1. UNCHANGED cmd
    BY DEF Next, Parse, Fork, SetMaster, InitTree, InitHost, InitNetwork, vars
  <2> QED BY <2>1 DEF Parsed, ParserFor, IdFor
<1>1. CASE Parse
  <2>1. ObjectOK'
    BY <1>1 DEF Parse, ObjectOK
  <2>2. cmd \in CommandLine /\ UNCHANGED cmd /\ pc = "parse"
    BY <1>1 DEF Parse, RouteOK
  <2>3. CASE Parsed(cmd) = "runs" /\ parser' = ParserFor(cmd) /\ pc' = "fork" /\ UNCHANGED status
    BY <2>1, <2>2, <2>3 DEF RouteOK, Parsed, ParserFor
  <2>4. CASE Parsed(cmd) = "shown" /\ pc' = "fork" /\ UNCHANGED <<parser, status>>
    BY <2>1, <2>2, <2>4 DEF RouteOK, Parsed, ParserFor
  <2>5. CASE Parsed(cmd) = "throws" /\ pc' = "refused"
    BY <2>1, <2>2, <2>5 DEF RouteOK, Parsed
  <2> QED BY <1>1, <2>3, <2>4, <2>5 DEF Parse, ParserFor
<1>2. CASE Fork
  <2>1. ObjectOK'
    BY <1>2 DEF Fork, ObjectOK
  <2>2. RouteOK'
    <3>1. CASE Parsed(cmd) = "runs" /\ parser = ParserFor(cmd)
      <4>1. parser.is_master \/ parser.is_standby
        BY <3>1 DEF ParserFor
      <4>2. pc' = "set master" /\ status' = 0 /\ UNCHANGED <<cmd, parser>>
        BY <1>2, <4>1 DEF Fork
      <4>3. parser' = ParserFor(cmd)' /\ Parsed(cmd)' = "runs"
        BY <1>0, <3>1, <4>2
      <4>4. cmd' \in CommandLine
        BY <4>2 DEF RouteOK
      <4>5. status' # 1
        <5>1. status' = 0  BY <4>2
        <5>2. 0 # 1  OBVIOUS
        <5> QED BY <5>1, <5>2, Zenon
      <4>6. pc' # "parse" /\ pc' # "fork" /\ pc' # "told"
        BY <4>2, Zenon
      <4> QED BY <4>3, <4>4, <4>5, <4>6, Zenon DEF RouteOK
    <3>2. CASE Parsed(cmd) = "shown" /\ ~parser.is_master /\ ~parser.is_standby
      <4>1. pc' = "told" /\ status' = 0 /\ UNCHANGED <<cmd, parser>>
        BY <1>2, <3>2 DEF Fork
      <4> QED BY <1>0, <3>2, <4>1 DEF RouteOK
    <3> QED BY <1>2, <3>1, <3>2 DEF Fork, RouteOK
  <2> QED BY <2>1, <2>2
<1>3. CASE SetMaster
  <2>1. RouteOK'
    BY <1>0, <1>3 DEF SetMaster, RouteOK
  <2>2. (parser.is_master <=> "listen" \in cmd.given) /\ fs.host_id = 0
    <3>1. parser = ParserFor(cmd)
      BY <1>3 DEF SetMaster, RouteOK
    <3>2. fs.host_id = 0
      BY <1>3 DEF SetMaster, ObjectOK
    <3> QED BY <3>1, <3>2 DEF ParserFor
  <2>3. fs'.host_id = IdFor(cmd) /\ DOMAIN fs' = {"host_id", "working_dir", "tree", "hosts"}
    BY <1>3, <2>2 DEF SetMaster, ObjectOK, IdFor
  <2>4. ObjectOK'
    BY <1>3, <2>3 DEF SetMaster, ObjectOK, IdFor
  <2> QED BY <2>1, <2>4
<1>4. CASE InitTree
  <2> DEFINE types == [p \in DOMAIN cmd.contents |-> cmd.contents[p].type]
  <2>1. RouteOK'
    BY <1>4 DEF InitTree, RouteOK
  <2>2. CASE UNCHANGED fs /\ pc' = "not shared"
    BY <1>4, <2>1, <2>2 DEF ObjectOK
  <2>3. CASE /\ fs' = [fs EXCEPT !.working_dir = "absolute path",
                                 !.tree = InitDirTree(types, fs.host_id)]
             /\ pc' = "host"
    <3>1. /\ DOMAIN fs' = {"host_id", "working_dir", "tree", "hosts"}
          /\ fs'.host_id = fs.host_id /\ fs'.working_dir = "absolute path"
          /\ fs'.tree = InitDirTree(types, fs.host_id)
      BY <2>3 DEF ObjectOK
    <3>2. \A p \in DOMAIN fs'.tree : fs'.tree[p].host_id = fs.host_id
      <4>1. \A p \in DOMAIN InitDirTree(types, fs.host_id) :
              InitDirTree(types, fs.host_id)[p].host_id = fs.host_id
        BY TreeOwner
      <4> QED BY <3>1, <4>1
    <3>3. fs.host_id = IdFor(cmd) /\ UNCHANGED cmd
      BY <1>4 DEF InitTree, ObjectOK
    <3>4. ObjectOK'
      BY <2>3, <3>1, <3>2, <3>3 DEF ObjectOK, IdFor
    <3> QED BY <2>1, <3>4
  <2> QED BY <1>4, <2>2, <2>3 DEF InitTree
<1>5. CASE InitHost
  <2>1. RouteOK'
    BY <1>5 DEF InitHost, RouteOK
  <2>2. ObjectOK'
    BY <1>5 DEF InitHost, ObjectOK, RouteOK, ParserFor, IdFor
  <2> QED BY <2>1, <2>2
<1>6. CASE InitNetwork
  BY <1>6 DEF InitNetwork, ObjectOK, RouteOK, ParserFor, IdFor
<1>7. CASE UNCHANGED vars
  BY <1>7 DEF vars, ObjectOK, RouteOK, ParserFor, IdFor
<1> QED BY <1>1, <1>2, <1>3, <1>4, <1>5, <1>6, <1>7 DEF Next

\* For every command line: a daemon is started exactly if the README says so, and
\* whoever gets an error had not asked for what the README describes.
THEOREM Accepts == Spec => []AcceptsExactly
<1>1. StartInv => AcceptsExactly
  <2> SUFFICES ASSUME StartInv PROVE AcceptsExactly
    OBVIOUS
  <2>1. cmd \in CommandLine /\ (Parsed(cmd) = "runs" <=> Acceptable(cmd))
    BY ParsedRuns DEF StartInv, RouteOK
  <2>2. Parsed(cmd) = "shown" => cmd.given \in {{}, {"help"}, {"version"}}
    BY DEF Parsed
  <2> QED BY <2>1, <2>2 DEF StartInv, RouteOK, AcceptsExactly
<1> QED BY <1>1, StartInit, StartNext, PTL DEF Spec

\* For every command line and working directory: when the network thread starts, id,
\* owners and host entry agree with the role, so the order of setMaster, initDirTree
\* and initHost in main() is a right one.
THEOREM Ready == Spec => []ReadyToJoin
<1>1. StartInv => ReadyToJoin
  BY DEF StartInv, ObjectOK, ReadyToJoin, IdFor, ParserFor
<1> QED BY <1>1, StartInit, StartNext, PTL DEF Spec

=============================================================================
