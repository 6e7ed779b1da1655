--------------------------- MODULE HmsttListings ---------------------------
(***************************************************************************)
(* The requests that read many states (app/hmstt): all of them, those of a *)
(* type, and the batch a device asks for.  They run beside the requests of *)
(* HmsttService and change nothing.                                        *)
(*                                                                         *)
(* A hash is read at once, but all states are read by a KEYS and then one  *)
(* HGETALL for each hash it named, with other requests in between.  One    *)
(* listing at a time is enough, as listings do not meet each other.        *)
(***************************************************************************)
EXTENDS HmsttService, Integers, Sequences, FiniteSets

CONSTANT BatchLength    \* bound: the keys a batch names

ASSUME BatchAssumption == BatchLength \in Nat

VARIABLES
    lpc,        \* the call the listing is about to make
    asked,      \* what it was asked for
    toRead,     \* the types whose hashes it has still to read
    found,      \* what it has read
    answer      \* what it has answered

listing == <<lpc, asked, toRead, found, answer>>
allVars == <<vars, listing>>

\* "tool" is the MCP tool that lists a type.
Query ==
    [kind : {"all"}, type : {None}, keys : {<< >>}]
    \cup [kind : {"type", "tool"}, type : Types, keys : {<< >>}]
    \cup [kind : {"batch"}, type : Types,
          keys : UNION {[1..n -> Keys] : n \in 0..BatchLength}]

Found == [slot : Slots, entry : Entry]

Answers ==
    [result : {"ok", "empty", "nokeys", "failed"},
     entries : SUBSET Found, list : Seq(Found)]

ListingTypeOK ==
    /\ lpc \in {"idle", "keys", "read", "done"}
    /\ lpc # "idle" => asked \in Query
    /\ toRead \subseteq Types
    /\ lpc = "read" => toRead # {}
    /\ found \subseteq Found
    /\ lpc = "done" => answer \in Answers

ListingInit ==
    /\ Init
    /\ lpc = "idle"
    /\ asked = None
    /\ toRead = {}
    /\ found = {}
    /\ answer = None
-----------------------------------------------------------------------------
\* The HTTP handlers say "not found" for a type that has no states; the tool,
\* the batch and the listing of all answer with an empty list.
Answered(q, result, entries, list) ==
    [result |-> IF q.kind = "type" /\ result = "ok" /\ entries = {}
                THEN "empty" ELSE result,
     entries |-> entries, list |-> list]

Finish(result, entries, list) ==
    /\ lpc' = "done"
    /\ answer' = Answered(asked, result, entries, list)
    /\ toRead' = {}
    /\ found' = {}
    /\ UNCHANGED asked

\* A listing is asked for.  A batch without keys is refused.
Ask ==
    /\ lpc = "idle"
    /\ \E q \in Query :
        /\ asked' = q
        /\ \/ /\ q.kind = "all"
              /\ lpc' = "keys"
              /\ UNCHANGED <<toRead, answer>>
           \/ /\ q.kind \in {"type", "tool"} \/ (q.kind = "batch" /\ q.keys # << >>)
              /\ lpc' = "read"
              /\ toRead' = {q.type}
              /\ UNCHANGED answer
           \/ /\ q.kind = "batch" /\ q.keys = << >>
              /\ lpc' = "done"
              /\ answer' = Answered(q, "nokeys", {}, << >>)
              /\ UNCHANGED toRead
    /\ UNCHANGED found

\* KEYS: the hashes there are
Stored == {t \in Types : \E k \in Keys : store[<<t, k>>] # NoEntry}

ReadKeys ==
    /\ lpc = "keys"
    /\ IF Stored = {}
       THEN Finish("ok", {}, << >>)
       ELSE /\ lpc' = "read"
            /\ toRead' = Stored
            /\ UNCHANGED <<asked, found, answer>>

\* Mutant: a key that is not there has an empty entry.
NamedOrEmpty(q, i, entries) ==
    LET slot == <<q.type, q.keys[i]>> IN
    IF \E e \in entries : e.slot = slot THEN {e \in entries : e.slot = slot}
    ELSE {[slot |-> slot, entry |-> NoEntry]}

\* The entries for the i-th key that a batch names: one, or none
Named(q, i, entries) == {e \in entries : e.slot = <<q.type, q.keys[i]>>}

\* The loop over the keys of a batch: their entries in the order and as often
\* as it names them; those that are not there are left out.
InOrder(q, entries) ==
    LET results[i \in 0..Len(q.keys)] ==
            IF i = 0 THEN << >>
            ELSE IF Named(q, i, entries) = {} THEN results[i - 1]
            ELSE Append(results[i - 1], CHOOSE e \in Named(q, i, entries) : TRUE)
    IN  results[Len(q.keys)]

\* HGETALL of one hash: its entries as they are now
HGetAll(t) ==
    {[slot |-> s, entry |-> store[s]] :
        s \in {u \in Slots : u[1] = t /\ store[u] # NoEntry}}

\* KEYS names the hashes in no particular order.
ReadType ==
    /\ lpc = "read"
    /\ \E t \in toRead :
        LET entries == found \cup HGetAll(t) IN
        IF toRead = {t}
        THEN IF asked.kind = "batch"
             THEN Finish("ok", {}, InOrder(asked, entries))
             ELSE Finish("ok", entries, << >>)
        ELSE /\ toRead' = toRead \ {t}
             /\ found' = entries
             /\ UNCHANGED <<lpc, asked, answer>>

\* Redis fails, and what was read so far is dropped.
ReadFails ==
    /\ "get" \in Faults
    /\ lpc \in {"keys", "read"}
    /\ Finish("failed", {}, << >>)

Reset ==
    /\ lpc' = "idle"
    /\ asked' = None
    /\ toRead' = {}
    /\ found' = {}
    /\ answer' = None

Taken == lpc = "done" /\ Reset

List == Ask \/ ReadKeys \/ ReadType \/ ReadFails \/ Taken

ListingNext ==
    \/ (\E r \in Requests : Arrive(r) \/ Step(r) \/ Return(r)) /\ UNCHANGED listing
    \/ ChannelChange /\ UNCHANGED listing
    \/ Restart /\ Reset
    \/ List /\ UNCHANGED vars

ListingSpec == ListingInit /\ [][ListingNext]_allVars
-----------------------------------------------------------------------------
\* The positions of a batch's keys whose states are stored
Hits(q) == {i \in DOMAIN q.keys : store[<<q.type, q.keys[i]>>] # NoEntry}

\* a has what q asks for as it is stored now: a batch an entry for each of its
\* keys that is there, in their order, and a listing all there is.
ShowsStore(q, a) ==
    IF q.kind = "batch"
    THEN /\ Len(a.list) = Cardinality(Hits(q))
         /\ \A i \in Hits(q) :
                a.list[Cardinality(Hits(q) \cap 1..i)]
                    = [slot |-> <<q.type, q.keys[i]>>,
                       entry |-> store[<<q.type, q.keys[i]>>]]
    ELSE a.entries = UNION {HGetAll(t) :
                            t \in IF q.kind = "all" THEN Types ELSE {q.type}}

\* What a listing answers is what is stored at the moment of its last read:
\* no state is missing, old or there twice, though it reads in several steps
\* while others write.  For all states that holds because one type only can be
\* stored, so that KEYS names one hash at most.
ListingsShowOneMoment ==
    [][(lpc \in {"keys", "read"} /\ lpc' = "done" /\ answer'.result # "failed")
            => ShowsStore(asked, answer')]_allVars
=============================================================================
