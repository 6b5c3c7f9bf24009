------------------------------ MODULE OreFeed ------------------------------
(***************************************************************************)
(* How a dog that mines learns the ore it mines on, and what becomes of    *)
(* its finds (bone_dog: get_ore, timer_dog_mining, timer_verify_ore).  The *)
(* ticks of get_ore overlap, and each compares what it fetched with a copy *)
(* of the dog's ore that it took before its awaits; finds leave the queue  *)
(* before the await that sends them.                                       *)
(* Ores are numbered as in OreRound; of a hash only the ore it was mined   *)
(* on and the length of the prefix they share are kept.                    *)
(***************************************************************************)
EXTENDS Naturals, Sequences, FiniteSets

CONSTANTS
    Ticks, Verifies,    \* bound: ticks of get_ore and calls of verify_ore in flight at once
    Difficulties,       \* bound: the values that ore_difficulty takes
    MaxFinds,           \* bound: finds of the dog
    MaxMoves,           \* bound: changes of main's ore or difficulty that others cause
    MaxFailures         \* bound: calls that are rejected

FeedAssumption ==
    /\ IsFiniteSet(Ticks) /\ IsFiniteSet(Verifies)
    /\ IsFiniteSet(Difficulties) /\ Difficulties \subseteq Nat \ {0}
    /\ MaxFinds \in Nat /\ MaxMoves \in Nat /\ MaxFailures \in Nat

VARIABLES
    content,        \* main's BASE_CONTEXT: ore and difficulty
    context,        \* the dog's DOG_CONTEXT: ore and difficulty
    ores,           \* DOG_CONTEXT.ores, the front first
    tick,           \* tick[t]: the get_ore in flight, its copy and its answer
    verify,         \* verify[v]: the verify_ore in flight, what it sent and its answer
    finds, sent,    \* history: finds made, finds sent
    moves, failures

vars == <<content, context, ores, tick, verify, finds, sent, moves, failures>>

Pair == [ore : Nat, difficulty : Nat]
NoPair == [ore |-> 0, difficulty |-> 0]     \* also the ("", 0, 0) of verify_ore
Find == [no : Nat, ore : Nat, prefix : Nat]
NoTick == [pc |-> "idle", copy |-> NoPair, answer |-> NoPair]
NoVerify == [pc |-> "idle", ores |-> {}, answer |-> NoPair]

\* tore[0..difficulty] == ore[0..difficulty]
Matches(f, c) == f.ore = c.ore /\ f.prefix >= c.difficulty

Init ==
    /\ content \in [ore : {1}, difficulty : Difficulties]
    /\ context = content
    /\ ores = <<>>
    /\ tick = [t \in Ticks |-> NoTick] /\ verify = [v \in Verifies |-> NoVerify]
    /\ finds = 0 /\ sent = {} /\ moves = 0 /\ failures = 0

(***************************************************************************)
(* get_ore.                                                                *)
(***************************************************************************)
\* A tick copies the context; a dog that starts again reports that first.
Tick(t) ==
    /\ tick[t].pc = "idle"
    /\ tick' = [tick EXCEPT ![t] = [NoTick EXCEPT !.pc = "asked", !.copy = context]]
    /\ UNCHANGED <<content, context, ores, verify, finds, sent, moves, failures>>

MainGetOre(t) ==
    /\ tick[t].pc = "asked"
    /\ tick' = [tick EXCEPT ![t].pc = "answered", ![t].answer = content]
    /\ UNCHANGED <<content, context, ores, verify, finds, sent, moves, failures>>

\* A wrong variant, to be refuted: the difficulty is taken for a version of the ore.
FetchedIfHarder(copy, answer) ==
    IF copy.difficulty = answer.difficulty THEN context ELSE answer

\* What differs from the copy is stored, whatever the context is by now.
Fetched(copy, answer) ==
    [ore |-> IF copy.ore = answer.ore THEN context.ore ELSE answer.ore,
     difficulty |-> IF copy.difficulty = answer.difficulty
                    THEN context.difficulty ELSE answer.difficulty]

Fetch(t) ==
    /\ tick[t].pc = "answered"
    /\ context' = Fetched(tick[t].copy, tick[t].answer)
    /\ tick' = [tick EXCEPT ![t] = NoTick]
    /\ UNCHANGED <<content, ores, verify, finds, sent, moves, failures>>

\* imain.get_ore panics on a rejection: the tick is gone, the next one comes.
TickLost(t) ==
    /\ tick[t].pc # "idle"
    /\ failures < MaxFailures /\ failures' = failures + 1
    /\ tick' = [tick EXCEPT ![t] = NoTick]
    /\ UNCHANGED <<content, context, ores, verify, finds, sent, moves>>

(***************************************************************************)
(* Finds.                                                                  *)
(***************************************************************************)
\* timer_dog_mining: a hash may share more with the ore than was asked for.
Mine ==
    /\ finds < MaxFinds /\ finds' = finds + 1
    /\ \E n \in Difficulties :
         /\ n >= context.difficulty
         /\ ores' = <<[no |-> finds', ore |-> context.ore, prefix |-> n]>> \o ores
    /\ UNCHANGED <<content, context, tick, verify, sent, moves, failures>>

Queued == {ores[i] : i \in 1 .. Len(ores)}

\* A wrong variant, to be refuted: the finds that match stay until they are accepted.
LeftInQueue == SelectSeq(ores, LAMBDA f : Matches(f, context))

\* secondary_verification pops all finds, also those of an ore that has gone.
LeftAfter == <<>>

VerifyOres(v) ==
    /\ verify[v].pc = "idle" /\ ores # <<>>
    /\ ores' = LeftAfter
    /\ LET found == {f \in Queued : Matches(f, context)}
       IN  IF found = {} THEN UNCHANGED <<verify, sent>>
           ELSE /\ verify' = [verify EXCEPT ![v] = [NoVerify EXCEPT !.pc = "sent", !.ores = found]]
                /\ sent' = sent \cup found
    /\ UNCHANGED <<content, context, tick, finds, moves, failures>>

\* main: a find that matches makes a new ore.  A dog that loses the draw or comes after
\* the cap is told nothing; OreRound has the rest.
MainVerifies(v) ==
    /\ verify[v].pc = "sent"
    /\ \/ /\ content' = IF \E f \in verify[v].ores : Matches(f, content)
                        THEN [content EXCEPT !.ore = @ + 1] ELSE content
          /\ verify' = [verify EXCEPT ![v].pc = "answered", ![v].answer = content']
       \/ content' = content /\ verify' = [verify EXCEPT ![v].pc = "answered"]
    /\ UNCHANGED <<context, ores, tick, finds, sent, moves, failures>>

Verified(v) ==
    /\ verify[v].pc = "answered"
    /\ context' = IF verify[v].answer.difficulty = 0 THEN context ELSE verify[v].answer
    /\ verify' = [verify EXCEPT ![v] = NoVerify]
    /\ UNCHANGED <<content, ores, tick, finds, sent, moves, failures>>

\* The guard is taken, a transfer fails or the call is rejected: the finds are lost.
VerifyFailed(v) ==
    /\ verify[v].pc # "idle"
    /\ failures < MaxFailures /\ failures' = failures + 1
    /\ verify' = [verify EXCEPT ![v] = NoVerify]
    /\ UNCHANGED <<content, context, ores, tick, finds, sent, moves>>

\* Another dog's find, an upgrade of main, calc.
MainMoves ==
    /\ moves < MaxMoves /\ moves' = moves + 1
    /\ content' \in [ore : {content.ore, content.ore + 1}, difficulty : Difficulties]
    /\ UNCHANGED <<context, ores, tick, verify, finds, sent, failures>>

GetOre(t) == Tick(t) \/ MainGetOre(t) \/ Fetch(t)
VerifyOre(v) == VerifyOres(v) \/ MainVerifies(v) \/ Verified(v)
Next ==
    \/ \E t \in Ticks : GetOre(t) \/ TickLost(t)
    \/ \E v \in Verifies : VerifyOre(v) \/ VerifyFailed(v)
    \/ Mine \/ MainMoves

\* Timers fire and calls are answered.
Progress == (\E t \in Ticks : GetOre(t)) \/ \E v \in Verifies : VerifyOre(v)
Spec == Init /\ [][Next]_vars /\ WF_vars(Progress)

(***************************************************************************)
(* Properties.                                                             *)
(***************************************************************************)
\* The type invariant: DogContext's ore, ore_difficulty and ores.
TypeOK ==
    /\ content \in Pair /\ context \in Pair
    /\ ores \in Seq(Find) /\ sent \subseteq Find /\ finds \in Nat
    /\ tick \in [Ticks -> [pc : {"idle", "asked", "answered"}, copy : Pair, answer : Pair]]
    /\ \A v \in Verifies :
         /\ verify[v].pc \in {"idle", "sent", "answered"}
         /\ verify[v].ores \subseteq Find /\ verify[v].answer \in Pair

\* No find is sent twice: what verify_ore was asked about has left the queue for good,
\* also when its answer is lost (bone_dog main.rs:276).
SentOnce == \A v \in Verifies : verify'[v].ores # verify[v].ores => verify'[v].ores \cap sent = {}

\* What comes again and again: the dog mines on main's ore at main's difficulty, though
\* late ticks overwrite newer ores and mix the ore of one answer with the difficulty of
\* another (bone_dog main.rs:235-252).
Settled == context = content
=============================================================================
