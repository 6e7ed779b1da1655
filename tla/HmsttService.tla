---------------------------- MODULE HmsttService ----------------------------
(***************************************************************************)
(* HmsttService and the handlers in front of it (app/hmstt): concurrent    *)
(* requests create, set, patch and read states.  A mutation is a GET from  *)
(* Redis, a decision in memory, an HSET of the whole entry, a message to   *)
(* RabbitMQ when the value changed, and a second GET for the answer.  No   *)
(* lock or transaction joins these steps, so those of other requests fall  *)
(* between them; each call out of the process may fail; and the process    *)
(* may be killed and started again between any two.                        *)
(*                                                                         *)
(* pc[r] is the call request r is about to make.                           *)
(***************************************************************************)
EXTENDS HmsttTypes

CONSTANTS
    Requests,   \* goroutines, each serving one request at a time
    Overlap,    \* may two mutations of one slot be in flight together?
    Faults      \* what may go wrong, of FaultKinds

FaultKinds ==
    {"get",         \* an HGET fails though the field is there
     "set_failed",  \* an HSET fails and stores nothing
     "set_lost",    \* an HSET stores the entry and its reply is lost
     "publish",     \* a message is lost, or the AMQP channel closes
     "flow",        \* the broker stops reading, perhaps for good
     "restart"}     \* the process dies and is started again

ASSUME ServiceAssumption ==
    /\ Overlap \in BOOLEAN
    /\ Faults \subseteq FaultKinds

\* A message tells something.
ASSUME MessageAssumption == None \notin Slots \X Values

VARIABLES
    store,      \* Redis: what each slot holds
    announced,  \* the last value subscribers were told, per slot
    channel,    \* the AMQP channel opened at start: see ChannelStates
    pc, req, upd, changed, reply,   \* the requests' local state
    overlapped, blind, unsynced     \* history, read by the properties alone

locals  == <<pc, req, upd, changed, reply>>
history == <<overlapped, blind, unsynced>>
vars == <<store, announced, channel, locals, history>>

Phases == {"idle", "read", "write", "publish", "readback", "done"}

\* "blocked": the broker has stopped reading (flow control, a full socket).
ChannelStates == {"open", "blocked", "closed"}

Results == {"ok", "invalid", "nothing", "exists", "notfound",
            "setfailed", "readfailed"}

Reply == [result : Results, entry : Entry \cup {NoEntry}]

InFlight(r) == pc[r] \in {"read", "write", "publish", "readback"}

\* The other mutations in flight for the slot of operation q
Rivals(r, q) ==
    {o \in Requests \ {r} : /\ InFlight(o)
                            /\ {q.op, req[o].op} \subseteq Mutators
                            /\ req[o].slot = q.slot}

TypeOK ==
    /\ store \in Stores
    /\ announced \in [Slots -> Optional(Values)]
    /\ channel \in ChannelStates
    /\ pc \in [Requests -> Phases]
    /\ req \in [Requests -> Input \cup {None}]
    /\ upd \in [Requests -> Entry \cup {NoEntry}]
    /\ changed \in [Requests -> BOOLEAN]
    /\ reply \in [Requests -> Reply \cup {None}]
    /\ overlapped \in [Requests -> BOOLEAN]
    /\ blind \in [Requests -> BOOLEAN]
    /\ unsynced \subseteq Slots
    /\ \A r \in Requests :
        /\ pc[r] # "idle" => req[r] \in Input
        /\ pc[r] = "done" => reply[r] \in Reply
        /\ pc[r] \in {"write", "publish"} => /\ upd[r] \in Entry
                                             /\ req[r].op \in Mutators

Init ==
    /\ store \in Stores
    /\ WellFormed(store)
    /\ announced = [s \in Slots |-> ValueOf(store[s])]
    /\ channel = "open"
    /\ pc = [r \in Requests |-> "idle"]
    /\ req = [r \in Requests |-> None]
    /\ upd = [r \in Requests |-> NoEntry]
    /\ changed = [r \in Requests |-> FALSE]
    /\ reply = [r \in Requests |-> None]
    /\ overlapped = [r \in Requests |-> FALSE]
    /\ blind = [r \in Requests |-> FALSE]
    /\ unsynced = {}
-----------------------------------------------------------------------------
\* A request arrives.  History: it and its rivals overlap from now on.
Arrive(r) ==
    /\ pc[r] = "idle"
    /\ \E q \in Input :
        LET rivals == Rivals(r, q) IN
        /\ Overlap \/ rivals = {}
        /\ req' = [req EXCEPT ![r] = q]
        /\ pc' = [pc EXCEPT ![r] = IF q.op = "get" THEN "readback" ELSE "read"]
        /\ overlapped' = [o \in Requests |->
                            IF o = r THEN rivals # {}
                            ELSE overlapped[o] \/ o \in rivals]
    /\ UNCHANGED <<store, announced, channel, upd, changed, reply, blind, unsynced>>

\* The caller has the answer, and the goroutine ends.
Return(r) ==
    /\ pc[r] = "done"
    /\ pc' = [pc EXCEPT ![r] = "idle"]
    /\ req' = [req EXCEPT ![r] = None]
    /\ reply' = [reply EXCEPT ![r] = None]
    /\ overlapped' = [overlapped EXCEPT ![r] = FALSE]
    /\ UNCHANGED <<store, announced, channel, upd, changed, blind, unsynced>>

\* The request is answered and forgets what it was doing.
Answer(r, result, entry) ==
    /\ pc' = [pc EXCEPT ![r] = "done"]
    /\ reply' = [reply EXCEPT ![r] = [result |-> result, entry |-> entry]]
    /\ upd' = [upd EXCEPT ![r] = NoEntry]
    /\ changed' = [changed EXCEPT ![r] = FALSE]
    /\ blind' = [blind EXCEPT ![r] = FALSE]

\* What HGET may yield for a slot: the entry, or an error.  The callers take
\* every error, a missing field or a failing Redis, for the same thing.
HGet(slot) == {store[slot]} \cup (IF "get" \in Faults THEN {NoEntry} ELSE {})

\* Mutant: the GET's error is not looked at, and a new state is no change.
CreationIsNoChange(current, value) ==
    current # NoEntry /\ current.value # value

\* The value changes, or there is none that could be read.
ValueChanged(current, value) == current = NoEntry \/ current.value # value

\* Mutants: the nil pointer goes through, or stands for an empty description.
DescriptionAsGiven(current, description) == description

DescriptionReset(current, description) ==
    IF description = None THEN "" ELSE description

\* Of a set: description nil preserves the description that was read.
SetDescription(current, description) ==
    IF description # None THEN description
    ELSE IF current = NoEntry THEN "" ELSE current.description

\* The decision is taken: r will store e.
GoWrite(r, current, e, valueChanged) ==
    /\ pc' = [pc EXCEPT ![r] = "write"]
    /\ upd' = [upd EXCEPT ![r] = e]
    /\ changed' = [changed EXCEPT ![r] = valueChanged]
    /\ blind' = [blind EXCEPT ![r] = current # store[req[r].slot]]
    /\ UNCHANGED reply

\* CreateState up to its HSET: refused when the state is already there.
CreateRead(r) ==
    LET q == req[r] IN
    /\ pc[r] = "read" /\ q.op = "create"
    /\ \/ /\ ~canTypeChangedWithKey(q.slot, q.value)
          /\ Answer(r, "invalid", NoEntry)
       \/ /\ canTypeChangedWithKey(q.slot, q.value)
          /\ \E current \in HGet(q.slot) :
                \/ /\ current # NoEntry
                   /\ Answer(r, "exists", NoEntry)
                \/ /\ current = NoEntry
                   /\ GoWrite(r, current, [value |-> q.value,
                                           description |-> q.description], TRUE)
    /\ UNCHANGED <<store, announced, channel, req, overlapped, unsynced>>

\* SetState up to its HSET: creates the state when none can be read.
SetRead(r) ==
    LET q == req[r] IN
    /\ pc[r] = "read" /\ q.op = "set"
    /\ \/ /\ ~canTypeChangedWithKey(q.slot, q.value)
          /\ Answer(r, "invalid", NoEntry)
       \/ /\ canTypeChangedWithKey(q.slot, q.value)
          /\ \E current \in HGet(q.slot) :
                GoWrite(r, current,
                        [value |-> q.value,
                         description |-> SetDescription(current, q.description)],
                        ValueChanged(current, q.value))
    /\ UNCHANGED <<store, announced, channel, req, overlapped, unsynced>>

\* Mutants: a patch drops the value it was given, or the description it was not.
ValueNotPatched(current, q) ==
    [value |-> current.value,
     description |-> IF q.description = None THEN current.description
                     ELSE q.description]

DescriptionCleared(current, q) ==
    [value |-> IF q.value = None THEN current.value ELSE q.value,
     description |-> IF q.description = None THEN "" ELSE q.description]

\* What a patch stores: the fields it names over the entry it read
Patched(current, q) ==
    [value |-> IF q.value = None THEN current.value ELSE q.value,
     description |-> IF q.description = None THEN current.description
                     ELSE q.description]

\* PatchState up to its HSET.  Whether the value is legal is looked at only
\* after the state was found.
PatchRead(r) ==
    LET q == req[r] IN
    /\ pc[r] = "read" /\ q.op = "patch"
    /\ \/ /\ q.value = None /\ q.description = None
          /\ Answer(r, "nothing", NoEntry)
       \/ /\ q.value # None \/ q.description # None
          /\ \E current \in HGet(q.slot) :
                \/ /\ current = NoEntry
                   /\ Answer(r, "notfound", NoEntry)
                \/ /\ current # NoEntry
                   /\ q.value # None
                   /\ ~canTypeChangedWithKey(q.slot, q.value)
                   /\ Answer(r, "invalid", NoEntry)
                \/ /\ current # NoEntry
                   /\ q.value # None => canTypeChangedWithKey(q.slot, q.value)
                   /\ GoWrite(r, current, Patched(current, q),
                              q.value # None /\ ValueChanged(current, q.value))
    /\ UNCHANGED <<store, announced, channel, req, overlapped, unsynced>>

\* HSET of the whole entry, and the four ways it can end.  History: a write
\* decided on while another mutation was in flight may have been decided on
\* an entry that is gone, and a write nobody announces leaves its slot behind.
Store(r) ==
    /\ pc[r] = "write"
    /\ store' = [store EXCEPT ![req[r].slot] = upd[r]]
    /\ UNCHANGED <<announced, channel, req, overlapped>>

WriteOk(r) ==
    /\ Store(r)
    /\ pc' = [pc EXCEPT ![r] = IF changed[r] THEN "publish" ELSE "readback"]
    /\ unsynced' = IF overlapped[r] THEN unsynced \cup {req[r].slot} ELSE unsynced
    /\ UNCHANGED <<upd, changed, reply, blind>>

\* The reply is lost: the caller is told the write failed, and no message is
\* published for what is now stored.
WriteLost(r) ==
    /\ "set_lost" \in Faults
    /\ Store(r)
    /\ Answer(r, "setfailed", NoEntry)
    /\ unsynced' = IF overlapped[r] \/ changed[r]
                   THEN unsynced \cup {req[r].slot} ELSE unsynced

\* Mutant: the error is ignored, and the change announced.
WriteFailedUnseen(r) ==
    /\ "set_failed" \in Faults
    /\ pc[r] = "write"
    /\ pc' = [pc EXCEPT ![r] = "publish"]
    /\ UNCHANGED <<store, announced, channel, req, upd, changed, reply,
                   overlapped, blind, unsynced>>

WriteFailed(r) ==
    /\ "set_failed" \in Faults
    /\ pc[r] = "write"
    /\ Answer(r, "setfailed", NoEntry)
    /\ UNCHANGED <<store, announced, channel, req, overlapped, unsynced>>

\* StateChange: the message reaches the topic exchange.  While the broker does
\* not read the call does not return: PublishWithContext of amqp091-go does not
\* look at its context, and so not at the deadline that StateChange sets.
Publish(r) ==
    LET slot == req[r].slot IN
    /\ pc[r] = "publish"
    /\ channel = "open"
    /\ announced' = [announced EXCEPT ![slot] = upd[r].value]
    /\ unsynced' = IF overlapped[r] THEN unsynced ELSE unsynced \ {slot}
    /\ pc' = [pc EXCEPT ![r] = "readback"]
    /\ UNCHANGED <<store, channel, req, upd, changed, reply, overlapped, blind>>

\* There are no publisher confirms.  (As a mutant of MessageLost: a publish on a
\* closed channel waits for a new one.)
LostOnTheWay == channel = "open" /\ "publish" \in Faults

\* A closed channel takes no message.
MessageLost == channel = "closed" \/ LostOnTheWay

\* The error, if the program sees one at all, is logged, and the request goes on.
PublishLost(r) ==
    /\ pc[r] = "publish"
    /\ MessageLost
    /\ pc' = [pc EXCEPT ![r] = "readback"]
    /\ unsynced' = unsynced \cup {req[r].slot}
    /\ UNCHANGED <<store, announced, channel, req, upd, changed, reply,
                   overlapped, blind>>

\* The GET that answers the request: all of a get, the last call of the rest.
\* What it reads is what is stored now, whoever stored it.
ReadBack(r) ==
    /\ pc[r] = "readback"
    /\ \E entry \in HGet(req[r].slot) :
        \/ entry # NoEntry /\ Answer(r, "ok", entry)
        \/ /\ entry = NoEntry
           /\ Answer(r, IF req[r].op = "get" THEN "notfound" ELSE "readfailed",
                     NoEntry)
    /\ UNCHANGED <<store, announced, channel, req, overlapped, unsynced>>

Step(r) ==
    \/ CreateRead(r) \/ SetRead(r) \/ PatchRead(r)
    \/ WriteOk(r) \/ WriteFailed(r) \/ WriteLost(r)
    \/ Publish(r) \/ PublishLost(r)
    \/ ReadBack(r)
-----------------------------------------------------------------------------
\* The channel or its connection breaks, which ends a publish that waits for
\* it.  Nobody listens for that, and the one channel of the process is opened
\* when it starts and never again.
ChannelClose ==
    /\ "publish" \in Faults
    /\ channel # "closed"
    /\ channel' = "closed"

\* The broker stops reading, or reads again.
ChannelBlock ==
    /\ "flow" \in Faults
    /\ channel = "open"
    /\ channel' = "blocked"

ChannelUnblock ==
    /\ channel = "blocked"
    /\ channel' = "open"

ChannelChange ==
    /\ ChannelClose \/ ChannelBlock \/ ChannelUnblock
    /\ UNCHANGED <<store, announced, locals, history>>

\* The process is killed, with the requests it was serving, and started
\* again: what Redis stores stays, and there is a new channel.
Restart ==
    /\ "restart" \in Faults
    /\ channel' = "open"
    /\ pc' = [r \in Requests |-> "idle"]
    /\ req' = [r \in Requests |-> None]
    /\ upd' = [r \in Requests |-> NoEntry]
    /\ changed' = [r \in Requests |-> FALSE]
    /\ reply' = [r \in Requests |-> None]
    /\ overlapped' = [r \in Requests |-> FALSE]
    /\ blind' = [r \in Requests |-> FALSE]
    /\ unsynced' = unsynced \cup
                   {req[r].slot : r \in {q \in Requests : pc[q] = "publish"}}
    /\ UNCHANGED <<store, announced>>

Next ==
    \/ \E r \in Requests : Arrive(r) \/ Step(r) \/ Return(r)
    \/ ChannelChange
    \/ Restart

Spec == Init /\ [][Next]_vars

\* A goroutine is scheduled, and go-redis ends each of its calls by a timeout.
\* A publish returns if the broker reads or the channel is closed; nothing is
\* assumed of either, as no action of the broker or the channel is fair.
FairSpec == Spec /\ \A r \in Requests : WF_vars(Step(r))
-----------------------------------------------------------------------------
(* What holds whatever fails and whatever overlaps. *)

\* Redis holds only what a device understands (on or off for a named switch):
\* what a patch writes back was read, or passed canTypeChangedWithKey.
StoreWellFormed == WellFormed(store)

\* Subscribers know the stored value of every slot but the unsynced ones,
\* which have a reason: a mutation that overlapped another one, a lost
\* message, or a process that died between the HSET and the message.  (The
\* one exception is a message about to be published.)  So without these no
\* state ever changes in silence, not even when GETs fail.
SubscribersAgree ==
    \A s \in Slots \ unsynced :
        \/ announced[s] = ValueOf(store[s])
        \/ \E r \in Requests : pc[r] = "publish" /\ req[r].slot = s

\* What operation q may make of entry e: a create makes a new entry, and the
\* others leave the fields the request does not name as they are.
Honours(q, e, new) ==
    /\ q.op = "create" => e = NoEntry
    /\ q.op = "patch" => e # NoEntry
    /\ q.value # None => new.value = q.value
    /\ q.value = None => new.value = e.value
    /\ q.description # None => new.description = q.description
    /\ q.description = None =>
            new.description = IF e = NoEntry THEN "" ELSE e.description

\* The entry under a request changes between its GET and its HSET only if
\* another mutation overlaps it: every other HSET does to what it overwrites
\* what its request asked for, if its GET did not fail.
WritesHonourRequests ==
    [][\A s \in Slots : store'[s] # store[s] =>
            \E r \in Requests :
                /\ pc[r] = "write" /\ req[r].slot = s
                /\ \/ overlapped[r]
                   \/ blind[r]
                   \/ Honours(req[r], store[s], store'[s])]_vars

\* The answer to a mutation that no other one overlapped shows the values it
\* was asked to store, not those of an older or a later mutation.
RepliesShowOwnWrite ==
    \A r \in Requests :
        LET q == req[r] IN
        (pc[r] = "done" /\ reply[r].result = "ok"
            /\ q.op \in Mutators /\ ~overlapped[r])
        => /\ q.value # None => reply[r].entry.value = q.value
           /\ q.description # None => reply[r].entry.description = q.description

\* r waits for a broker that does not read.
HeldUp(r) == pc[r] = "publish" /\ channel = "blocked"

\* Every request is answered, or dies with the process, unless it is held up by
\* a broker that has stopped reading: no closed channel, lost message or failed
\* call leaves one waiting, and those held up are answered as well if the broker
\* reads again and goes on doing so, or the channel is closed.
RequestsAnswered == \A r \in Requests : InFlight(r) ~> (~InFlight(r) \/ HeldUp(r))
-----------------------------------------------------------------------------
(* What the service implements.  Mutations of one slot that do not overlap,  *)
(* where Redis fails cleanly: it is the abstract registry, of which a        *)
(* mutation takes effect at its HSET.                                        *)

\* A value is announced, in the abstract, as soon as it is stored.
AnnouncedWithStore ==
    [s \in Slots |->
        IF \E r \in Requests : pc[r] = "publish" /\ req[r].slot = s
        THEN store[s].value ELSE announced[s]]

\* An operation has its answer once it has taken effect.
OutcomeOf(r) ==
    CASE pc[r] = "idle" -> "none"
      [] pc[r] \in {"read", "write"} -> "pending"
      [] pc[r] = "publish" -> "ok"
      [] pc[r] = "readback" -> IF req[r].op = "get" THEN "pending" ELSE "ok"
      [] pc[r] = "done" -> IF reply[r].result = "setfailed" THEN "failed"
                           ELSE reply[r].result

\* The entry r's answer shows or will show: of a mutation what it has stored.
ShownBy(r) ==
    CASE pc[r] \in {"publish", "readback"} ->
            IF req[r].op = "get" THEN NoEntry ELSE upd[r]
      [] pc[r] = "done" -> reply[r].entry
      [] OTHER -> NoEntry

Registry == INSTANCE StateRegistry WITH
    Callers <- Requests,
    announced <- AnnouncedWithStore,
    job <- req,
    outcome <- [r \in Requests |-> OutcomeOf(r)],
    shown <- [r \in Requests |-> ShownBy(r)]

\* The service implements the registry: create, set, patch and get are atomic,
\* answered after what was stored when they took effect, show what they stored
\* or found then, and every change is announced.
ImplementsRegistry == Registry!Spec

\* To subscribers and pollers a request that is about to publish has stored
\* a value it has not told of.
Feed == INSTANCE StateFeed WITH
    Names <- Slots,
    Levels <- Values,
    Writers <- Requests,
    store <- [s \in Slots |-> ValueOf(store[s])],
    telling <- [r \in Requests |->
                    IF pc[r] = "publish" THEN <<req[r].slot, upd[r].value>>
                    ELSE None]

\* Whatever overlaps and whatever fails, the service implements the feed the
\* devices are modelled with: every message tells of a value its sender has
\* stored, after it was stored, once.
ImplementsFeed == Feed!Spec
-----------------------------------------------------------------------------
(* What the comments, the API's documentation and the README promise without *)
(* such conditions.                                                          *)

\* r completes its HSET.
Wrote(r) == pc[r] = "write" /\ pc'[r] \in {"publish", "readback"}

\* createState: "Returns 409 if the key already exists."
CreateNeverOverwrites ==
    [][\A r \in Requests : Wrote(r) /\ req[r].op = "create"
                                => store[req[r].slot] = NoEntry]_vars

\* SetState: "If description is nil, the existing description is preserved."
SetKeepsDescription ==
    [][\A r \in Requests :
        LET s == req[r].slot IN
        (Wrote(r) /\ req[r].op = "set" /\ req[r].description = None
            /\ store[s] # NoEntry)
        => store'[s].description = store[s].description]_vars

\* patchState: "Fields not provided are left unchanged."
PatchKeepsFields ==
    [][\A r \in Requests :
        LET s == req[r].slot IN
        (Wrote(r) /\ req[r].op = "patch")
        => /\ req[r].value = None => store'[s].value = store[s].value
           /\ req[r].description = None
                => store'[s].description = store[s].description]_vars

\* README: state changes are published, so that once every request has been
\* answered subscribers know what is stored.
QuiescentAgreement ==
    (\A r \in Requests : ~InFlight(r))
    => \A s \in Slots : announced[s] = ValueOf(store[s])
=============================================================================
