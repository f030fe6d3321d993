----------------------------- MODULE SSHSession -----------------------------
(***************************************************************************)
(* SSH sessions (libssh_wrapper.h, libssh_wrapper.cc): the connection that *)
(* a node keeps to each host it has read from, with the one file open on   *)
(* it, as the FUSE threads of the node use it.                             *)
(*                                                                         *)
(* _ssh_session, _sftp_session and _file_handle are numbers: Null, Wild (a *)
(* member the constructor has not set) or the place in conns of the        *)
(* connection they belong to.  conns[c].parts says which of the three      *)
(* objects of connection c exist.  libssh is external: what it does with a *)
(* valid, a null and an invalid handle is assumed here.  Using an invalid  *)
(* handle is undefined behaviour; it sets crashed, and the process is not  *)
(* followed any further.                                                   *)
(*                                                                         *)
(* A step of a thread is one libssh call, or a pair of calls on the same   *)
(* handle, with the assignments around it.  All reads are one block long.  *)
(***************************************************************************)
EXTENDS Integers, Sequences

CONSTANTS Thread,       \* the threads of the FUSE loop
          Size,         \* <<address, remote path>> -> number of blocks of the file
          MaxFaults,    \* how often a call of a library fails for no modelled reason
          MaxDrops      \* how often a server closes a connection

VARIABLES th,           \* what each thread is doing
          session,      \* SSHManager::_connections: host id -> SSHSession
          conns,        \* the connections ever made
          gone,         \* the files that have been removed by their owners
          faults, drops,
          crashed       \* "no", or what was used that is no longer, or not yet, there

\* What no step of a thread changes unless it says so.
others == <<gone, drops, crashed>>

sshVars == <<th, session, conns, faults, others>>

Null == 0
Wild == -1
Parts == {"file", "sftp", "ssh"}

\* _file_open of a session that has no file open.
NoPath == << >>

\* SSHSession::SSHSession: the three handles get no value, so they hold what was
\* in memory.
NewSession(address) ==
    [address : {address}, open : {NoPath},
     ssh : {Null, Wild}, sftp : {Null, Wild}, file : {Null, Wild}]

Mine(t) == session[th[t].id]

Valid(handle, part) == handle > 0 /\ part \in conns[handle].parts

Goto(t, pc) == th' = [th EXCEPT ![t].pc = pc]

Answer(t, kind, data) ==
    th' = [th EXCEPT ![t].pc = "done", ![t].ans = [kind |-> kind, data |-> data]]

Invalid(handle, part) == handle # Null /\ ~Valid(handle, part)

\* Undefined behaviour: memory is used that is not what the code takes it for.
\* No thread goes on.
Undefined(what) ==
    /\ crashed' = what
    /\ th' = [t \in Thread |-> [pc |-> "dead"]]
    /\ UNCHANGED <<session, conns, gone, faults, drops>>

\* An invalid handle is used.
BadHandle(handle) == Undefined(IF handle > 0 THEN "freed" ELSE "unset")

\* A call of a library fails, for the reason given or for one that is not modelled.
Fails(reason) ==
    \/ reason /\ UNCHANGED faults
    \/ ~reason /\ faults < MaxFaults /\ faults' = faults + 1

\* A step of do_connect has failed.
ConnectFails(t) ==
    /\ th' = [th EXCEPT ![t].pc = "disconnect", ![t].troubled = TRUE]
    /\ UNCHANGED others

----------------------------------------------------------------------------
\* Mutant: whatever file is open is used.
CheckAnyFile(t) ==
    /\ th[t].pc = "check"
    /\ Goto(t, IF Mine(t).open # NoPath /\ Mine(t).sftp # Null THEN "seek" ELSE "new")
    /\ UNCHANGED <<session, conns, faults, others>>

\* SSHSession::read: the open file is used if it is the one that is asked for.
Check(t) ==
    /\ th[t].pc = "check"
    /\ Goto(t, IF Mine(t).open = th[t].remote /\ Mine(t).sftp # Null
               THEN "seek" ELSE "new")
    /\ UNCHANGED <<session, conns, faults, others>>

\* ssh_new and the options.  The handle of an earlier connection is overwritten.
SshNew(t) ==
    /\ th[t].pc = "new"
    /\ \/ /\ conns' = Append(conns, [of |-> th[t].id, to |-> Mine(t).address,
                                     up |-> FALSE, parts |-> {"ssh"},
                                     file |-> NoPath, pos |-> 0])
          /\ session' = [session EXCEPT ![th[t].id].ssh = Len(conns) + 1]
          /\ Goto(t, "connect")
          /\ UNCHANGED <<faults, others>>
       \/ /\ Fails(FALSE)
          /\ session' = [session EXCEPT ![th[t].id].ssh = Null]
          /\ ConnectFails(t)
          /\ UNCHANGED conns

\* ssh_connect and the authentication.
SshConnect(t) ==
    LET ssh == Mine(t).ssh
    IN  /\ th[t].pc = "connect"
        /\ \/ /\ Valid(ssh, "ssh")
              /\ conns' = [conns EXCEPT ![ssh].up = TRUE]
              /\ Goto(t, "sftp")
              /\ UNCHANGED <<session, faults, others>>
           \/ /\ ~Invalid(ssh, "ssh")
              /\ Fails(ssh = Null)
              /\ ConnectFails(t)
              /\ UNCHANGED <<session, conns>>
           \/ /\ Invalid(ssh, "ssh")
              /\ BadHandle(ssh)

\* sftp_new, which may return no session, and sftp_init on the session.
SftpNew(t) ==
    LET ssh == Mine(t).ssh
        up  == ssh # Null /\ conns[ssh].up
        SetSftp(sftp) == session' = [session EXCEPT ![th[t].id].sftp = sftp]
        Begin == conns' = [conns EXCEPT ![ssh].parts = @ \cup {"sftp"}]
    IN  /\ th[t].pc = "sftp"
        /\ \/ /\ Valid(ssh, "ssh") /\ up
              /\ SetSftp(ssh) /\ Begin
              /\ Goto(t, "open")
              /\ UNCHANGED <<faults, others>>
           \/ /\ ~Invalid(ssh, "ssh")
              /\ Fails(~up)
              /\ \/ SetSftp(Null) /\ UNCHANGED conns
                 \/ ssh # Null /\ SetSftp(ssh) /\ Begin
              /\ ConnectFails(t)
           \/ /\ Invalid(ssh, "ssh")
              /\ BadHandle(ssh)

\* sftp_open; only then is the path remembered.
SftpOpen(t) ==
    LET sftp == Mine(t).sftp
        there == /\ sftp # Null /\ conns[sftp].up
                 /\ <<conns[sftp].to, th[t].remote>> \in DOMAIN Size \ gone
    IN  /\ th[t].pc = "open"
        /\ \/ /\ Valid(sftp, "sftp") /\ there
              /\ conns' = [conns EXCEPT ![sftp].parts = @ \cup {"file"},
                                        ![sftp].file = th[t].remote, ![sftp].pos = 0]
              /\ session' = [session EXCEPT ![th[t].id].file = sftp,
                                            ![th[t].id].open = th[t].remote]
              /\ th' = [th EXCEPT ![t].pc = "seek", ![t].fresh = TRUE]
              /\ UNCHANGED <<faults, others>>
           \/ /\ ~Invalid(sftp, "sftp")
              /\ Fails(~there)
              /\ session' = [session EXCEPT ![th[t].id].file = Null]
              /\ ConnectFails(t)
              /\ UNCHANGED conns
           \/ /\ Invalid(sftp, "sftp")
              /\ BadHandle(sftp)

\* Mutant: a failed read is reported without a second try.
ReadFailsAtOnce(t) ==
    /\ Goto(t, "disconnect")
    /\ UNCHANGED <<session, conns, faults, others>>

\* Mutant: the second try uses the connection that failed.
ReadFailsTriesAgain(t) ==
    /\ Goto(t, "seek")
    /\ UNCHANGED <<session, conns, faults, others>>

\* do_read fails.  If it did on the connection that was found, a new one is tried.
ReadFails(t) ==
    /\ th' = [th EXCEPT ![t].pc = "disconnect", ![t].retry = ~th[t].fresh]
    /\ UNCHANGED <<session, conns, faults, others>>

\* sftp_seek64 in do_read: the position belongs to the handle.
Seek(t) ==
    LET file == Mine(t).file
    IN  /\ th[t].pc = "seek"
        /\ \/ /\ Valid(file, "file")
              /\ conns' = [conns EXCEPT ![file].pos = th[t].offset]
              /\ Goto(t, "fetch")
              /\ UNCHANGED <<session, faults, others>>
           \/ /\ file = Null
              /\ ReadFails(t)
           \/ /\ Invalid(file, "file")
              /\ BadHandle(file)

\* sftp_read in do_read: the block at the position of the handle, which moves on.
\* Without a connection it fails.
Fetch(t) ==
    LET file == Mine(t).file
        at   == conns[file].pos
        from == <<conns[file].to, conns[file].file>>
    IN  /\ th[t].pc = "fetch"
        /\ \/ /\ Valid(file, "file") /\ conns[file].up
              /\ IF at < Size[from]
                 THEN /\ conns' = [conns EXCEPT ![file].pos = at + 1]
                      /\ Answer(t, "bytes", <<from, at>>)
                 ELSE /\ Answer(t, "eof", << >>)
                      /\ UNCHANGED conns
              /\ UNCHANGED <<session, faults, others>>
           \/ /\ Valid(file, "file") /\ ~conns[file].up
              /\ ReadFails(t)
           \/ /\ ~Valid(file, "file")
              /\ BadHandle(file)

----------------------------------------------------------------------------
(* disconnect(): what the last step released is forgotten in the next one.  *)

\* The object of a handle of the session is released, and the session becomes s.
Release(t, part, s, next) ==
    LET handle == Mine(t)[part]
    IN  \/ /\ Invalid(handle, part)
           /\ BadHandle(handle)
        \/ /\ ~Invalid(handle, part)
           /\ conns' = [c \in DOMAIN conns |->
                          IF c # handle THEN conns[c]
                          ELSE [conns[c] EXCEPT !.parts = @ \ {part}, !.up = @ /\ part # "ssh"]]
           /\ session' = [session EXCEPT ![th[t].id] = s]
           /\ Goto(t, next)
           /\ UNCHANGED <<faults, others>>

CloseFile(t) ==
    /\ th[t].pc = "disconnect"
    /\ Release(t, "file", [Mine(t) EXCEPT !.open = NoPath], "close sftp")

CloseSftp(t) ==
    /\ th[t].pc = "close sftp"
    /\ Release(t, "sftp", [Mine(t) EXCEPT !.file = Null], "close ssh")

\* Mutant: the sftp session is freed and not forgotten.
CloseSshKeepsSftp(t) ==
    /\ th[t].pc = "close ssh"
    /\ Release(t, "ssh", Mine(t), "closed")

CloseSsh(t) ==
    /\ th[t].pc = "close ssh"
    /\ Release(t, "ssh", [Mine(t) EXCEPT !.sftp = Null], "closed")

\* After disconnect() a new connection is made, or the failure is reported.
Closed(t) ==
    /\ th[t].pc = "closed"
    /\ session' = [session EXCEPT ![th[t].id].ssh = Null]
    /\ IF th[t].retry THEN th' = [th EXCEPT ![t].pc = "new", ![t].retry = FALSE]
                      ELSE Answer(t, "EIO", << >>)
    /\ UNCHANGED <<conns, faults, others>>

\* A server closes a connection.  That troubles a read only if the read has
\* given up the connection it found.
Drop(c) ==
    /\ drops < MaxDrops
    /\ conns[c].up
    /\ drops' = drops + 1
    /\ conns' = [conns EXCEPT ![c].up = FALSE]
    /\ th' = [t \in Thread |->
                IF th[t].pc \in {"sftp", "open"} \/ (th[t].pc \in {"seek", "fetch"} /\ th[t].fresh)
                THEN [th[t] EXCEPT !.troubled = TRUE] ELSE th[t]]
    /\ UNCHANGED <<session, gone, faults, crashed>>

SessionStep(t) ==
    \/ Check(t) \/ SshNew(t) \/ SshConnect(t) \/ SftpNew(t) \/ SftpOpen(t)
    \/ Seek(t) \/ Fetch(t)
    \/ CloseFile(t) \/ CloseSftp(t) \/ CloseSsh(t) \/ Closed(t)

=============================================================================
