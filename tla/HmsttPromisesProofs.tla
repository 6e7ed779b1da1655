------------------------ MODULE HmsttPromisesProofs ------------------------
(***************************************************************************)
(* When the promises hold that the comments, the API's documentation and   *)
(* the README make without conditions, and which runs refute: where        *)
(* mutations of one state are never in flight together, as with one client *)
(* per state, and where the calls that each promise rests on do not fail.  *)
(* For any number of requests, slots, values and descriptions.             *)
(***************************************************************************)
EXTENDS HmsttServiceProofs

(* Without overlaps no request is marked by one. *)

NoneOverlapped == \A r \in Requests : ~overlapped[r]

\* Every step keeps it so.
LEMMA AloneNext ==
    ASSUME ~Overlap, TypeOK, NoneOverlapped, [Next]_vars
    PROVE  NoneOverlapped'
<1> USE DEF NoneOverlapped
<1>1. ASSUME NEW r \in Requests, Arrive(r) PROVE NoneOverlapped'
  <2>1. PICK q \in Input :
            /\ Rivals(r, q) = {}
            /\ overlapped' = [o \in Requests |->
                    IF o = r THEN Rivals(r, q) # {}
                    ELSE overlapped[o] \/ o \in Rivals(r, q)]
    BY <1>1 DEF Arrive
  <2> QED BY <2>1
<1>2. ASSUME NEW r \in Requests, Step(r) PROVE NoneOverlapped'
    BY <1>2, StepFrame
<1>3. ASSUME NEW r \in Requests, Return(r) PROVE NoneOverlapped'
    BY <1>3 DEF Return, TypeOK
<1>4. CASE ChannelChange \/ UNCHANGED vars
    BY <1>4 DEF ChannelChange, vars, history
<1>5. CASE Restart
    BY <1>5 DEF Restart
<1> QED BY <1>1, <1>2, <1>3, <1>4, <1>5 DEF Next

\* So no request ever is.
LEMMA AloneAlways ==
    ASSUME ~Overlap
    PROVE  Spec => []NoneOverlapped
<1>1. Init => NoneOverlapped
    BY DEF Init, NoneOverlapped
<1>2. TypeOK /\ NoneOverlapped /\ [Next]_vars => NoneOverlapped'
    BY AloneNext
<1> QED BY <1>1, <1>2, TypeCorrect, PTL DEF Spec
-----------------------------------------------------------------------------
(* What a request decides on is what is stored. *)

\* Where GETs do not fail, no request decides on an entry it did not read.
NoneBlind == \A r \in Requests : ~blind[r]

\* A decision to write was taken on the stored entry.
LEMMA SightedGoWrite ==
    ASSUME TypeOK, NoneBlind, NEW r \in Requests, NEW current, NEW e,
           NEW valueChanged, current = store[req[r].slot],
           GoWrite(r, current, e, valueChanged)
    PROVE  NoneBlind'
    BY DEF NoneBlind, GoWrite, TypeOK

\* An answer forgets what it was based on.
LEMMA SightedAnswer ==
    ASSUME TypeOK, NoneBlind, NEW r \in Requests, NEW result, NEW entry,
           Answer(r, result, entry)
    PROVE  NoneBlind'
    BY DEF NoneBlind, Answer, TypeOK

\* Every step keeps it so.
LEMMA SightedNext ==
    ASSUME "get" \notin Faults, TypeOK, NoneBlind, [Next]_vars
    PROVE  NoneBlind'
<1>0. \A slot : HGet(slot) = {store[slot]}
    BY DEF HGet
<1>1. ASSUME NEW r \in Requests, Arrive(r) \/ Return(r) PROVE NoneBlind'
    BY <1>1 DEF Arrive, Return, NoneBlind
<1>2. ASSUME NEW r \in Requests, Step(r) PROVE NoneBlind'
  <2>1. CASE CreateRead(r)
    BY <1>0, <2>1, SightedGoWrite, SightedAnswer DEF CreateRead
  <2>2. CASE SetRead(r)
    BY <1>0, <2>2, SightedGoWrite, SightedAnswer DEF SetRead
  <2>3. CASE PatchRead(r)
    BY <1>0, <2>3, SightedGoWrite, SightedAnswer DEF PatchRead
  <2>4. CASE WriteOk(r) \/ Publish(r) \/ PublishLost(r)
    BY <2>4 DEF WriteOk, Publish, PublishLost, NoneBlind
  <2>5. CASE WriteFailed(r) \/ WriteLost(r) \/ ReadBack(r)
    BY <2>5, SightedAnswer DEF WriteFailed, WriteLost, ReadBack
  <2> QED BY <1>2, <2>1, <2>2, <2>3, <2>4, <2>5 DEF Step
<1>3. CASE ChannelChange \/ UNCHANGED vars
    BY <1>3 DEF ChannelChange, vars, locals, history, NoneBlind
<1>4. CASE Restart
    BY <1>4 DEF Restart, NoneBlind
<1> QED BY <1>1, <1>2, <1>3, <1>4 DEF Next

\* So no request ever is.
LEMMA SightedAlways ==
    ASSUME "get" \notin Faults
    PROVE  Spec => []NoneBlind
<1>1. Init => NoneBlind
    BY DEF Init, NoneBlind
<1>2. TypeOK /\ NoneBlind /\ [Next]_vars => NoneBlind'
    BY SightedNext
<1> QED BY <1>1, <1>2, TypeCorrect, PTL DEF Spec

\* A patch is never blind, though GETs fail: it takes a failed one for a state
\* that is not there, and does not write.
PatchesSee ==
    \A r \in Requests : pc[r] = "write" /\ req[r].op = "patch" => ~blind[r]

\* Every step keeps it so.
LEMMA PatchSeesNext ==
    ASSUME TypeOK, PatchesSee, [Next]_vars
    PROVE  PatchesSee'
<1> USE DEF PatchesSee
<1>1. ASSUME NEW r \in Requests, Arrive(r) \/ Return(r) PROVE PatchesSee'
    BY <1>1 DEF Arrive, Return, TypeOK
<1>2. ASSUME NEW r \in Requests, Step(r) PROVE PatchesSee'
  <2>1. /\ UNCHANGED req
        /\ \A o \in Requests \ {r} : pc'[o] = pc[o] /\ blind'[o] = blind[o]
    BY <1>2, StepFrame
  <2> SUFFICES pc'[r] = "write" /\ req[r].op = "patch" => ~blind'[r]
    BY <2>1
  <2>2. CASE CreateRead(r) \/ SetRead(r)
    BY <2>2 DEF CreateRead, SetRead
  <2>3. CASE PatchRead(r)
    <3>1. ASSUME NEW current \in HGet(req[r].slot), current # NoEntry, NEW e,
                 NEW valueChanged, GoWrite(r, current, e, valueChanged)
          PROVE  ~blind'[r]
      BY <3>1 DEF GoWrite, HGet, TypeOK
    <3>2. ASSUME NEW result, NEW entry, Answer(r, result, entry)
          PROVE  pc'[r] # "write"
      BY <3>2 DEF Answer, TypeOK
    <3> QED BY <2>3, <3>1, <3>2 DEF PatchRead
  <2>4. CASE WriteOk(r) \/ Publish(r) \/ PublishLost(r)
    BY <2>4 DEF WriteOk, Store, Publish, PublishLost, TypeOK
  <2>5. CASE WriteFailed(r) \/ WriteLost(r) \/ ReadBack(r)
    BY <2>5 DEF WriteFailed, WriteLost, ReadBack, Answer, TypeOK
  <2> QED BY <1>2, <2>2, <2>3, <2>4, <2>5 DEF Step
<1>3. CASE ChannelChange \/ UNCHANGED vars
    BY <1>3 DEF ChannelChange, vars, locals, history
<1>4. CASE Restart
    BY <1>4 DEF Restart
<1> QED BY <1>1, <1>2, <1>3, <1>4 DEF Next

\* So it holds in every reachable state.
LEMMA PatchSeesAlways == Spec => []PatchesSee
<1>1. Init => PatchesSee
    BY DEF Init, PatchesSee
<1>2. TypeOK /\ PatchesSee /\ [Next]_vars => PatchesSee'
    BY PatchSeesNext
<1> QED BY <1>1, <1>2, TypeCorrect, PTL DEF Spec
-----------------------------------------------------------------------------
(* The promises about writes *)

\* A request that completes its HSET stored what it had decided on.
LEMMA WroteStores ==
    ASSUME TypeOK, [Next]_vars, NEW r \in Requests, Wrote(r)
    PROVE  /\ req[r].slot \in Slots
           /\ store'[req[r].slot] = upd[r]
<1>1. req[r].slot \in Slots
    BY InputFields DEF Wrote, TypeOK
<1>2. ~\E o \in Requests : Arrive(o) \/ Return(o)
    BY DEF Arrive, Return, Wrote, TypeOK
<1>3. ~ChannelChange /\ ~Restart /\ ~UNCHANGED vars
    BY DEF ChannelChange, Restart, vars, locals, Wrote
<1>4. Step(r)
  <2>1. PICK o \in Requests : Step(o)
    BY <1>2, <1>3 DEF Next
  <2>2. o = r
    BY <2>1, StepFrame DEF Wrote
  <2> QED BY <2>1, <2>2
<1>5. Store(r)
    BY <1>4 DEF Step, CreateRead, SetRead, PatchRead, WriteOk, WriteFailed,
       WriteLost, Publish, PublishLost, ReadBack, Answer, Wrote, TypeOK
<1> QED BY <1>1, <1>5 DEF Store, TypeOK, Stores

\* What a write makes of its slot, of a request that nobody overlaps and that
\* saw what is stored
LEMMA WroteHonours ==
    ASSUME HonourInv, [Next]_vars, NEW r \in Requests, Wrote(r),
           ~overlapped[r], ~blind[r]
    PROVE  Honours(req[r], store[req[r].slot], store'[req[r].slot])
    BY WroteStores DEF HonourInv, DueWritesHonour, Wrote

\* "Returns 409 if the key already exists" (createState) holds where mutations
\* of a state do not overlap and no GET fails: a create that stores something
\* stores it where nothing was.
THEOREM CreatesThatAreAloneNeverOverwrite ==
    ASSUME ~Overlap, "get" \notin Faults
    PROVE  Spec => CreateNeverOverwrites
<1> DEFINE Kept == \A r \in Requests : Wrote(r) /\ req[r].op = "create"
                                            => store[req[r].slot] = NoEntry
<1>1. ASSUME HonourInv, NoneOverlapped, NoneBlind, [Next]_vars PROVE Kept
    BY <1>1, WroteHonours DEF Honours, NoneOverlapped, NoneBlind
<1>2. HonourInv /\ NoneOverlapped /\ NoneBlind /\ [Next]_vars => [Kept]_vars
    BY <1>1
<1> QED BY <1>2, HonourAlways, AloneAlways, SightedAlways, PTL
        DEF Spec, CreateNeverOverwrites

\* "If description is nil, the existing description is preserved" (SetState)
\* holds where mutations of a state do not overlap and no GET fails.
THEOREM SetsThatAreAloneKeepDescriptions ==
    ASSUME ~Overlap, "get" \notin Faults
    PROVE  Spec => SetKeepsDescription
<1> DEFINE Kept ==
            \A r \in Requests :
                LET s == req[r].slot IN
                (Wrote(r) /\ req[r].op = "set" /\ req[r].description = None
                    /\ store[s] # NoEntry)
                => store'[s].description = store[s].description
<1>1. ASSUME HonourInv, NoneOverlapped, NoneBlind, [Next]_vars PROVE Kept
    BY <1>1, WroteHonours DEF Honours, NoneOverlapped, NoneBlind
<1>2. HonourInv /\ NoneOverlapped /\ NoneBlind /\ [Next]_vars => [Kept]_vars
    BY <1>1
<1> QED BY <1>2, HonourAlways, AloneAlways, SightedAlways, PTL
        DEF Spec, SetKeepsDescription

\* "Fields not provided are left unchanged" (patchState) holds where mutations
\* of a state do not overlap, whatever fails.
THEOREM PatchesThatAreAloneKeepFields ==
    ASSUME ~Overlap
    PROVE  Spec => PatchKeepsFields
<1> DEFINE Kept ==
            \A r \in Requests :
                LET s == req[r].slot IN
                (Wrote(r) /\ req[r].op = "patch")
                => /\ req[r].value = None => store'[s].value = store[s].value
                   /\ req[r].description = None
                        => store'[s].description = store[s].description
<1>1. ASSUME HonourInv, NoneOverlapped, PatchesSee, [Next]_vars PROVE Kept
  <2> SUFFICES ASSUME NEW r \in Requests, Wrote(r), req[r].op = "patch"
               PROVE  LET s == req[r].slot IN
                      /\ req[r].value = None => store'[s].value = store[s].value
                      /\ req[r].description = None
                            => store'[s].description = store[s].description
    OBVIOUS
  <2>1. ~overlapped[r] /\ ~blind[r]
    BY <1>1 DEF NoneOverlapped, PatchesSee, Wrote
  <2> QED BY <1>1, <2>1, WroteHonours DEF Honours
<1>2. HonourInv /\ NoneOverlapped /\ PatchesSee /\ [Next]_vars => [Kept]_vars
    BY <1>1
<1> QED BY <1>2, HonourAlways, AloneAlways, PatchSeesAlways, PTL
        DEF Spec, PatchKeepsFields
-----------------------------------------------------------------------------
(* The promise to subscribers *)

\* Without overlaps, lost messages, lost replies and restarts no change stays
\* untold.
AllSynced == channel # "closed" /\ unsynced = {}

\* Every step keeps it so.
LEMMA SyncedNext ==
    ASSUME Faults \subseteq {"get", "set_failed", "flow"},
           TypeOK, NoneOverlapped, AllSynced, [Next]_vars
    PROVE  AllSynced'
<1> USE DEF AllSynced
<1>0. {"publish", "set_lost", "restart"} \cap Faults = {}
    OBVIOUS
<1>1. ASSUME NEW r \in Requests, Arrive(r) \/ Return(r) PROVE AllSynced'
    BY <1>1 DEF Arrive, Return
<1>2. ASSUME NEW r \in Requests, Step(r) PROVE AllSynced'
  <2>1. CASE CreateRead(r) \/ SetRead(r) \/ PatchRead(r) \/ ReadBack(r)
    BY <2>1 DEF CreateRead, SetRead, PatchRead, ReadBack
  <2>2. CASE WriteOk(r) \/ Publish(r)
    BY <2>2 DEF WriteOk, Store, Publish, NoneOverlapped
  <2>3. CASE WriteFailed(r)
    BY <2>3 DEF WriteFailed
  <2>4. ~WriteLost(r) /\ ~PublishLost(r)
    BY <1>0 DEF WriteLost, PublishLost, MessageLost, LostOnTheWay
  <2> QED BY <1>2, <2>1, <2>2, <2>3, <2>4 DEF Step
<1>3. CASE ChannelChange
    BY <1>0, <1>3 DEF ChannelChange, ChannelClose, ChannelBlock, ChannelUnblock, history
<1>5. ~Restart
    BY <1>0 DEF Restart
<1>4. CASE UNCHANGED vars
    BY <1>4 DEF vars, history
<1> QED BY <1>1, <1>2, <1>3, <1>4, <1>5 DEF Next

\* The README's promise to subscribers holds where mutations of a state do not
\* overlap, no message and no reply to an HSET is lost and the process is not
\* restarted, though other calls to Redis fail and the broker may stop reading: once every request has been
\* answered, they know all that is stored.
THEOREM SubscribersAloneKnowAll ==
    ASSUME ~Overlap, Faults \subseteq {"get", "set_failed", "flow"}
    PROVE  Spec => []QuiescentAgreement
<1>1. Init => AllSynced
    BY DEF Init, AllSynced
<1>2. TypeOK /\ NoneOverlapped /\ AllSynced /\ [Next]_vars => AllSynced'
    BY SyncedNext
<1>3. AllSynced /\ SubscribersAgree => QuiescentAgreement
    BY DEF AllSynced, SubscribersAgree, QuiescentAgreement, InFlight
<1> QED BY <1>1, <1>2, <1>3, TypeCorrect, AloneAlways, SubscribersAlwaysAgree, PTL
        DEF Spec
=============================================================================
