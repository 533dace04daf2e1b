--------------------------- MODULE TelegramOutbox ---------------------------
(* The persisted queue of phone pings (src/notifications/telegram-outbox.ts *)
(* over src/notifications/core/outbox-core.ts): deliver() queues, saves and *)
(* sends a ping; replay() sends again what is left; saves go through one    *)
(* serial queue; the server may stop at any moment and start again.         *)
(*                                                                          *)
(* A ping is its place in the order of arrival, so the list of entries, in  *)
(* which nothing is ever moved, is a function from the pings it holds to    *)
(* their attempts.  Time is left out but for what it decides: a ping may    *)
(* grow too old (MaxAge), the retry timer may fire.                         *)
EXTENDS Naturals, FiniteSets, Sequences

CONSTANTS
  LastPing,     \* bound on the pings handed to deliver()
  MaxEntries,
  MaxAttempts,
  MaxCrashes,   \* bound on the restarts of the server
  PromptDisk    \* a save takes less than the retry interval

ASSUME BoundsAssumption ==
  /\ PromptDisk \in BOOLEAN
  /\ LastPing \in Nat /\ MaxCrashes \in Nat
  /\ MaxEntries \in Nat \ {0} /\ MaxAttempts \in Nat \ {0}

VARIABLES
  arrived,      \* pings handed to deliver() so far
  entries,      \* [pings held -> attempts]
  disk,         \* the file
  writes,       \* the queue of saves: what to write, and who awaits it
  sending,      \* the attempts whose send() has not answered: <<ping, by>>
  inFlight,     \* entryIdsInFlight
  counted,      \* entryIdsWithFailureCounted
  armed,        \* retryTimer !== null
  slow,         \* how many saves have waited since before it was armed
  todo,         \* what the running replay has still to visit
  replaying,    \* isReplayRunning
  old,          \* pings older than MaxAge
  crashes,
  \* history
  sent,         \* [ping -> the lives of the server a send succeeded in]
  failedIn,     \* [ping -> the lives of the server a send failed in]
  settled,      \* pings evicted, expired or given up
  written       \* pings that have reached the file

memory  == <<entries, sending, inFlight, counted, armed, slow, todo, replaying>>
history == <<sent, failedIn, settled, written>>
vars == <<arrived, memory, disk, writes, old, crashes, history>>

Pings == 1..LastPing
Senders == {"deliver", "replay"}

Without(f, S) == [p \in DOMAIN f \ S |-> f[p]]

Init ==
  /\ arrived = 0 /\ entries = <<>> /\ disk = <<>> /\ writes = <<>>
  /\ sending = {} /\ inFlight = {} /\ counted = {} /\ armed = FALSE /\ slow = 0
  /\ todo = {} /\ replaying = FALSE
  /\ old = {} /\ crashes = 0
  /\ sent = [p \in Pings |-> {}] /\ failedIn = [p \in Pings |-> {}]
  /\ settled = {} /\ written = {}

-----------------------------------------------------------------------------

\* persist(): a snapshot of the entries joins the queue of saves.
Persist(queue, awaiter) ==
  writes' = Append(queue, [entries |-> entries', awaiter |-> awaiter])

\* The saves that are older than the timer: those that wait as it is armed,
\* or those left of them if it was armed before.
Aging(before, left) ==
  slow' = IF ~armed' THEN 0 ELSE IF before THEN left ELSE Len(writes')

\* forgetDepartedEntries
ForgetDeparted == counted' = counted \cap DOMAIN entries'

\* Mutant: one ping too many is kept.
KeptOneMore(held) ==
  {p \in held : Cardinality({q \in held : q > p}) <= MaxEntries}

\* planEnqueue keeps the last MaxEntries entries.
Kept(held) == {p \in held : Cardinality({q \in held : q > p}) < MaxEntries}

\* deliver(): the ping is queued and saved; its send waits for the save.
Deliver ==
  /\ arrived < LastPing
  /\ arrived' = arrived + 1
  /\ LET held == DOMAIN entries \cup {arrived'} IN
     /\ entries' = [p \in Kept(held) |-> IF p = arrived' THEN 0 ELSE entries[p]]
     /\ settled' = settled \cup (held \ Kept(held))
  /\ ForgetDeparted
  /\ Persist(writes, <<"deliver", arrived'>>)
  /\ UNCHANGED <<disk, sending, inFlight, armed, slow, todo, replaying, old,
                 crashes, sent, failedIn, written>>

\* The start of attempt(), with the attempts and the pings in flight so far.
Attempt(p, by, attempts, flying) ==
  /\ sending' = attempts \cup {<<p, by>>}
  /\ inFlight' = flying \cup {p}

\* Mutant: the end of a replay leaves the retry to the next failure.
RearmNever(held, flying) == FALSE

\* The finally of replay(): what is still idle is retried.
Rearm(held, flying) == DOMAIN held \ flying # {}

\* The pings of a replay's plan that are still held and not being sent.
Idle(plan, held, flying) == (plan \cap DOMAIN held) \ flying

(* attemptEachIdleEntry from the pings of plan on: the next one that is     *)
(* still held and not in flight is attempted; without one the replay ends.  *)
ReplayOn(plan, held, attempts, flying, timer) ==
  LET idle == Idle(plan, held, flying) IN
  \/ \E p \in idle :
       /\ \A q \in idle : p <= q
       /\ Attempt(p, "replay", attempts, flying)
       /\ todo' = {q \in plan : q > p}
       /\ replaying' = TRUE /\ armed' = timer
  \/ /\ idle = {}
     /\ todo' = {} /\ replaying' = FALSE
     /\ armed' = (timer \/ Rearm(held, flying))
     /\ sending' = attempts /\ inFlight' = flying

\* planReplay: what is given up before the replay begins.
Expired(held) == {p \in DOMAIN held : held[p] >= MaxAttempts \/ p \in old}

\* replay(), with nothing armed, on the given memory.
Replay(held, attempts, flying, failures, queue) ==
  /\ entries' = Without(held, Expired(held))
  /\ settled' = settled \cup Expired(held)
  /\ counted' = failures \cap DOMAIN entries'
  /\ \/ /\ Expired(held) = {}
        /\ ReplayOn(DOMAIN held, held, attempts, flying, FALSE)
        /\ writes' = queue
     \/ /\ Expired(held) # {}
        /\ Persist(queue, <<"replay">>)
        /\ todo' = DOMAIN entries' /\ replaying' = TRUE /\ armed' = FALSE
        /\ sending' = attempts /\ inFlight' = flying

RetryFires ==
  /\ armed
  /\ PromptDisk => slow = 0
  /\ Replay(entries, sending, inFlight, counted, writes)
  /\ Aging(FALSE, 0)
  /\ UNCHANGED <<arrived, disk, old, crashes, sent, failedIn, written>>

\* Mutant: a save overtakes the ones that wait before it.
LandingAny == DOMAIN writes

\* The place in the queue of the save that lands next.
Landing == DOMAIN writes \cap {1}

\* The save is over, written or refused, and who awaited it goes on.
WriteDone ==
  /\ \E i \in Landing :
       /\ \/ /\ disk' = writes[i].entries
             /\ written' = written \cup DOMAIN disk'
          \/ UNCHANGED <<disk, written>>
       /\ writes' = SubSeq(writes, 1, i - 1) \o SubSeq(writes, i + 1, Len(writes))
       /\ LET awaiter == writes[i].awaiter IN
          \/ /\ awaiter[1] = "deliver"
             /\ Attempt(awaiter[2], "deliver", sending, inFlight)
             /\ UNCHANGED <<armed, todo, replaying>>
          \/ /\ awaiter[1] = "replay"
             /\ ReplayOn(todo, entries, sending, inFlight, armed)
          \/ /\ awaiter[1] = "nobody"
             /\ UNCHANGED <<sending, inFlight, armed, todo, replaying>>
       /\ Aging(armed, IF i <= slow THEN slow - 1 ELSE slow)
  /\ UNCHANGED <<arrived, entries, counted, old, crashes, sent, failedIn,
                 settled>>

\* The end of attempt(): its save is awaited by the replay it belongs to.
EndAttempt(p, by) ==
  /\ <<p, by>> \in sending
  /\ sending' = sending \ {<<p, by>>}
  /\ inFlight' = inFlight \ {p}
  /\ Persist(writes, IF by = "replay" THEN <<"replay">> ELSE <<"nobody">>)
  /\ UNCHANGED <<arrived, disk, todo, replaying, old, crashes, written>>

\* send() answered ok.
SendOk(p, by) ==
  /\ entries' = Without(entries, {p})
  /\ ForgetDeparted
  /\ sent' = [sent EXCEPT ![p] = @ \cup {crashes}]
  /\ EndAttempt(p, by)
  /\ UNCHANGED <<armed, slow, failedIn, settled>>

\* Mutant: every failure counts, not one in each life of the server.
CountedNever(p) == FALSE

\* countFailureOncePerProcess: this life has counted a failure of p.
Counted(p) == p \in counted

\* countFailureOncePerProcess with recordFailure.
CountFailure(p) ==
  \/ /\ Counted(p) \/ p \notin DOMAIN entries
     /\ UNCHANGED <<entries, counted, settled>>
  \/ /\ ~Counted(p) /\ p \in DOMAIN entries
     /\ entries[p] + 1 < MaxAttempts
     /\ entries' = [entries EXCEPT ![p] = @ + 1]
     /\ counted' = counted \cup {p}
     /\ UNCHANGED settled
  \/ /\ ~Counted(p) /\ p \in DOMAIN entries
     /\ entries[p] + 1 >= MaxAttempts
     /\ entries' = Without(entries, {p})
     /\ settled' = settled \cup {p}
     /\ UNCHANGED counted

\* Mutant: the timer is armed although a replay runs.
ArmsAnyhow(p) == p \in DOMAIN entries'

\* armRetry after a failure: the replay that runs will arm it at its end.
Arms(p) == p \in DOMAIN entries' /\ ~replaying

\* send() answered otherwise, or threw.
SendFailed(p, by) ==
  /\ CountFailure(p)
  /\ failedIn' = [failedIn EXCEPT ![p] = @ \cup {crashes}]
  /\ armed' = (armed \/ Arms(p))
  /\ EndAttempt(p, by)
  /\ Aging(armed, slow)
  /\ UNCHANGED sent

\* MaxAge has passed for a ping.
Age ==
  /\ \E p \in DOMAIN entries \ old : old' = old \cup {p}
  /\ UNCHANGED <<arrived, memory, disk, writes, crashes, history>>

(* The server stops, perhaps just as a save lands, and starts again: the    *)
(* file is loaded and replayed.                                             *)
Restart ==
  /\ crashes < MaxCrashes /\ crashes' = crashes + 1
  /\ \/ disk' = disk
     \/ \E i \in Landing : disk' = writes[i].entries
  /\ written' = written \cup DOMAIN disk'
  /\ Replay(disk', {}, {}, {}, <<>>)
  /\ Aging(FALSE, 0)
  /\ UNCHANGED <<arrived, old, sent, failedIn>>

SendDone == \E p \in Pings, by \in Senders : SendOk(p, by) \/ SendFailed(p, by)

Next == \/ Deliver \/ WriteDone \/ SendDone \/ RetryFires
        \/ Age \/ Restart

Spec == Init /\ [][Next]_vars

\* The disk answers, Telegram answers or times out, the timer fires.
Fairness == /\ WF_vars(WriteDone) /\ WF_vars(RetryFires)
            /\ \A p \in Pings, by \in Senders :
                 WF_vars(SendOk(p, by) \/ SendFailed(p, by))

FairSpec == Spec /\ Fairness

-----------------------------------------------------------------------------
(* Properties *)

\* What a list of entries may be.
Entries == UNION {[S -> 0..(MaxAttempts - 1)] : S \in SUBSET Pings}
Awaiters == {<<"replay">>, <<"nobody">>} \cup ({"deliver"} \X Pings)
Saves == [entries : Entries, awaiter : Awaiters]

TypeOK ==
  /\ arrived \in 0..LastPing /\ crashes \in 0..MaxCrashes
  /\ entries \in Entries /\ disk \in Entries
  /\ Cardinality(DOMAIN entries) <= MaxEntries
  /\ writes \in Seq(Saves)
  /\ sending \subseteq Pings \X Senders
  /\ inFlight \subseteq Pings /\ todo \subseteq Pings
  /\ counted \subseteq DOMAIN entries
  /\ {armed, replaying} \subseteq BOOLEAN
  /\ {old, settled, written} \subseteq SUBSET Pings
  /\ slow \in 0..Len(writes)
  /\ {sent, failedIn} \subseteq [Pings -> SUBSET (0..MaxCrashes)]

\* deliver() has queued the ping and not yet attempted it.
AwaitsFirstAttempt(p) ==
  \E i \in DOMAIN writes : writes[i].awaiter = <<"deliver", p>>

\* A ping that is held is never forgotten: it is being sent, it is about to
\* be, or a replay that runs or is armed will come to it.
NeverForgotten ==
  \A p \in DOMAIN entries :
    \/ p \in inFlight \/ armed \/ replaying
    \/ AwaitsFirstAttempt(p)

\* What the replays that run await: their saves and their sends.
ReplayAwaits ==
  {<<"save", i>> : i \in {i \in DOMAIN writes : writes[i].awaiter = <<"replay">>}}
    \cup {<<"send", p>> : p \in {p \in Pings : <<p, "replay">> \in sending}}

\* No replay begins while another runs: the timer is not armed meanwhile, and
\* there is one send or save that the replay awaits.
OneReplay ==
  /\ armed => ~replaying
  /\ ReplayAwaits # {} => replaying
  /\ \A x, y \in ReplayAwaits : x = y

\* A ping that has reached the file stays there until it was sent, or was
\* given up for its age, its failures or the newer pings: no save that was
\* overtaken and no restart loses it.
SavedUntilSettled ==
  \A p \in written :
    p \in DOMAIN disk \/ sent[p] # {} \/ p \in settled

\* Only failures in different lives of the server use up a ping's attempts:
\* one long outage of the network never does.
AttemptsAreLives ==
  \A p \in DOMAIN entries : entries[p] <= Cardinality(failedIn[p])

\* In one life of the server a ping that was sent is not sent again, and its
\* delivery and a replay never send it at the same time.
OneMessagePerLife ==
  \A p \in Pings :
    /\ ~({p} \X Senders \subseteq sending)
    /\ crashes \in sent[p] => ({p} \X Senders) \cap sending = {}

\* A held ping is attempted again, or leaves the queue.
RetriedUntilSettled ==
  \A p \in Pings :
    (p \in DOMAIN entries) ~> (p \in inFlight \/ p \notin DOMAIN entries)
=============================================================================
