----------------------------- MODULE Broadcast ------------------------------
(***************************************************************************)
(* What a group promises about metadata, without sockets, queues, handlers *)
(* or threads.  The master has the current metadata and publishes a new    *)
(* version whenever a standby joins or leaves.  To a standby that is       *)
(* linked with it every version comes that it publishes from then on, in   *)
(* the order of publication and once, but for the version of the standby's *)
(* own joining, which comes with its id and as an update.  The standby     *)
(* shows one after the other.  A link may end at any moment, and with it   *)
(* what was coming.                                                        *)
(***************************************************************************)
EXTENDS Naturals, Sequences

CONSTANT Standby

VARIABLES
    meta,           \* the master's metadata
    recent,         \* versions published that a new link will still get
    linked,         \* the standbys that have a working connection
    joined,         \* the standbys that the master has given an id
    coming,         \* per standby: versions on their way to it
    view            \* per standby: the metadata it shows

vars == <<meta, recent, linked, joined, coming, view>>

\* New metadata, which the standbys in twice get two times.
Publish(twice) ==
    /\ recent' = Append(recent, meta')
    /\ \A s \in Standby :
         coming'[s] = IF s \notin linked' THEN << >>
                      ELSE IF s \in twice THEN coming[s] \o <<meta', meta'>>
                      ELSE coming[s] \o <<meta'>>
    /\ UNCHANGED view

\* A standby gets its id.
Join(s) ==
    /\ s \notin joined
    /\ joined' = joined \cup {s}
    /\ UNCHANGED linked
    /\ Publish({s})

\* The master notices that a standby is gone.
Leave(s) ==
    /\ s \in joined
    /\ joined' = joined \ {s}
    /\ linked' = linked \ {s}
    /\ Publish({})

\* As long as nobody is linked and nothing is published, the master completes
\* its metadata without telling anybody.
Prepare ==
    /\ linked = {} /\ joined = {} /\ recent = << >>
    /\ UNCHANGED <<recent, linked, joined, coming, view>>

\* The oldest of the recent versions does not concern new links any more.
Distribute ==
    /\ recent # << >>
    /\ recent' = Tail(recent)
    /\ UNCHANGED <<meta, linked, joined, coming, view>>

\* A new link starts with the recent versions.
Connect(s) ==
    /\ s \notin linked /\ s \notin joined
    /\ linked' = linked \cup {s}
    /\ coming'[s] = recent
    /\ \A t \in Standby \ {s} : coming'[t] = coming[t]
    /\ UNCHANGED <<meta, recent, joined, view>>

\* The oldest version on its way arrives.
Arrive(s) ==
    /\ s \in linked
    /\ coming[s] # << >>
    /\ view'[s] = Head(coming[s])
    /\ coming'[s] = Tail(coming[s])
    /\ \A t \in Standby \ {s} : view'[t] = view[t] /\ coming'[t] = coming[t]
    /\ UNCHANGED <<meta, recent, linked, joined>>

\* Links end.
Unlink ==
    /\ linked' \subseteq linked
    /\ \A s \in Standby : coming'[s] = IF s \in linked' THEN coming[s] ELSE << >>
    /\ UNCHANGED <<meta, recent, joined, view>>

\* The master ends.
Stop ==
    /\ linked' = {} /\ joined' = {} /\ recent' = << >>
    /\ \A s \in Standby : coming'[s] = << >>
    /\ UNCHANGED <<meta, view>>

\* A standby that is not linked is on its own.
Alone(s) ==
    /\ s \notin linked
    /\ \A t \in Standby \ {s} : view'[t] = view[t]
    /\ UNCHANGED <<meta, recent, linked, joined, coming>>

Init ==
    /\ linked = {} /\ joined = {} /\ recent = << >>
    /\ \A s \in Standby : coming[s] = << >>

Next ==
    \/ Prepare \/ Distribute \/ Unlink \/ Stop
    \/ \E s \in Standby : Join(s) \/ Leave(s) \/ Connect(s) \/ Arrive(s) \/ Alone(s)

Spec == Init /\ [][Next]_vars

=============================================================================
