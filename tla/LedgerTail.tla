----------------------------- MODULE LedgerTail -----------------------------
(***************************************************************************)
(* The live ledger: Memory.Subscribe and broadcast of                      *)
(* control-plane/internal/storage/memory.go, ledgerTailHandler of          *)
(* control-plane/internal/api/ledger_tail.go, and the dashboard's          *)
(* useSSELedger (control-plane/dashboard-ui/src/hooks/useSSE.ts).          *)
(*                                                                         *)
(* Every append starts a goroutine that hands the entry to the             *)
(* subscribers; these goroutines are ordered by nothing but the mutex      *)
(* subMu.  A handler subscribes, replays the ledger, then streams.  The    *)
(* client appends what arrives to its list and, when a connection breaks,  *)
(* opens a new one two seconds later; connections are numbered 1, 2, ...   *)
(* An entry is its sequence number, counted from 1.                        *)
(***************************************************************************)
EXTENDS Naturals, Sequences, FiniteSets, SequencesExt

CONSTANTS
  Buffer,         \* capacity of a subscriber's channel (32 in the handler)
  Wire,           \* how many events the network holds before a write blocks
  Cap,            \* how many entries the client keeps (5000)
  MaxSeq,         \* bound on the appended entries
  MaxConn,        \* bound on the connections the client opens
  ReplayMayFail   \* whether ListLedger may return an error

ASSUME TailAssumption ==
  /\ Buffer \in Nat \ {0} /\ Wire \in Nat \ {0} /\ Cap \in Nat \ {0}
  /\ MaxSeq \in Nat /\ MaxConn \in Nat
  /\ ReplayMayFail \in BOOLEAN

Conn == 1 .. MaxConn
NoFanout == [entry |-> 0, todo |-> {}]

VARIABLES
  ledger,      \* number of entries in the ledger
  pending,     \* entries whose broadcast goroutine has not taken subMu yet
  fanout,      \* the broadcast that holds subMu, and whom it has yet to reach
  subscribers, \* m.subscribers: the registered connections
  chan,        \* per connection, the entries in its channel
  panicked,    \* somebody sent on a closed channel
  phase,       \* per connection, how far its handler is
  replay,      \* per connection, the rest of the entries ListLedger returned
  out,         \* per connection, everything its handler wrote
  read,        \* per connection, how much of out the client has received
  gone,        \* the connections that the network or the client has dropped
  dropped,     \* per connection, the entries its full channel refused
  cur,         \* the client's current EventSource; 0 before the first
  status,      \* the client's status
  timer,       \* reconnectRef: whether the client's reconnect timer runs
  entries      \* the client's list of entries

serverVars == <<ledger, pending, fanout, subscribers, chan, panicked, dropped>>
handlerVars == <<phase, replay, out>>
clientVars == <<cur, status, timer, entries>>
tailVars == <<serverVars, handlerVars, read, gone, clientVars>>

TailInit ==
  /\ ledger = 0 /\ pending = {} /\ fanout = NoFanout
  /\ subscribers = {} /\ panicked = FALSE
  /\ chan = [c \in Conn |-> <<>>]
  /\ dropped = [c \in Conn |-> {}]
  /\ phase = [c \in Conn |-> "unused"]
  /\ replay = [c \in Conn |-> <<>>]
  /\ out = [c \in Conn |-> <<>>]
  /\ read = [c \in Conn |-> 0]
  /\ gone = {}
  /\ cur = 0 /\ status = "connecting" /\ timer = FALSE /\ entries = <<>>

SubMuFree == fanout = NoFanout

-----------------------------------------------------------------------------
\* Memory

\* AppendLedger succeeds: "go m.broadcast(entry)".
AppendLedger ==
  /\ ledger < MaxSeq                                          \* bound
  /\ ledger' = ledger + 1
  /\ pending' = pending \cup {ledger + 1}
  /\ UNCHANGED <<fanout, subscribers, chan, panicked, dropped>>
  /\ UNCHANGED <<handlerVars, read, gone, clientVars>>

\* A broadcast goroutine, whichever the scheduler picks, takes subMu.
BroadcastStart(e) ==
  /\ SubMuFree
  /\ e \in pending
  /\ pending' = pending \ {e}
  /\ fanout' = [entry |-> e, todo |-> subscribers]
  /\ UNCHANGED <<ledger, subscribers, chan, panicked, dropped>>
  /\ UNCHANGED <<handlerVars, read, gone, clientVars>>

\* Mutant: a subscriber counts only once its replay is over.
BroadcastSend_AfterReplay(c) ==
  /\ c \in fanout.todo
  /\ fanout' = [fanout EXCEPT !.todo = @ \ {c}]
  /\ IF c \notin subscribers
     THEN panicked' = TRUE /\ UNCHANGED <<chan, dropped>>
     ELSE /\ UNCHANGED panicked
          /\ IF phase[c] = "serving" /\ Len(chan[c]) < Buffer
             THEN /\ chan' = [chan EXCEPT ![c] = Append(@, fanout.entry)]
                  /\ UNCHANGED dropped
             ELSE UNCHANGED <<chan, dropped>>
  /\ UNCHANGED <<ledger, pending, subscribers>>
  /\ UNCHANGED <<handlerVars, read, gone, clientVars>>

\* One iteration of the loop over m.subscribers: a send that would block is
\* skipped, a send on a closed channel panics.
BroadcastSend(c) ==
  /\ c \in fanout.todo
  /\ fanout' = [fanout EXCEPT !.todo = @ \ {c}]
  /\ IF c \notin subscribers
     THEN panicked' = TRUE /\ UNCHANGED <<chan, dropped>>
     ELSE /\ UNCHANGED panicked
          /\ IF Len(chan[c]) < Buffer
             THEN /\ chan' = [chan EXCEPT ![c] = Append(@, fanout.entry)]
                  /\ UNCHANGED dropped
             ELSE /\ dropped' = [dropped EXCEPT ![c] = @ \cup {fanout.entry}]
                  /\ UNCHANGED chan
  /\ UNCHANGED <<ledger, pending, subscribers>>
  /\ UNCHANGED <<handlerVars, read, gone, clientVars>>

BroadcastEnd ==
  /\ ~SubMuFree
  /\ fanout.todo = {}
  /\ fanout' = NoFanout
  /\ UNCHANGED <<ledger, pending, subscribers, chan, panicked, dropped>>
  /\ UNCHANGED <<handlerVars, read, gone, clientVars>>

-----------------------------------------------------------------------------
\* ledgerTailHandler, one goroutine per connection

Subscribe(c) ==
  /\ phase[c] = "open"
  /\ SubMuFree
  /\ subscribers' = subscribers \cup {c}
  /\ phase' = [phase EXCEPT ![c] = "subscribed"]
  /\ UNCHANGED <<ledger, pending, fanout, chan, panicked, dropped>>
  /\ UNCHANGED <<replay, out, read, gone, clientVars>>

\* ListLedger returns what the ledger holds now.
Replay(c) ==
  /\ phase[c] = "subscribed"
  /\ replay' = [replay EXCEPT ![c] = [i \in 1 .. ledger |-> i]]
  /\ phase' = [phase EXCEPT ![c] = "serving"]
  /\ UNCHANGED <<serverVars, out, read, gone, clientVars>>

\* ListLedger fails: one error event, then the deferred cancel.
ReplayFails(c) ==
  /\ ReplayMayFail
  /\ phase[c] = "subscribed"
  /\ phase' = [phase EXCEPT ![c] = "closing"]
  /\ UNCHANGED <<serverVars, replay, out, read, gone, clientVars>>

\* A write blocks while the network is full; on a broken connection it
\* returns an error, which writeSSEEvent ignores.
CanWrite(c) == c \in gone \/ Len(out[c]) - read[c] < Wire

WriteReplayed(c) ==
  /\ phase[c] = "serving"
  /\ replay[c] # <<>>
  /\ CanWrite(c)
  /\ out' = [out EXCEPT ![c] = Append(@, Head(replay[c]))]
  /\ replay' = [replay EXCEPT ![c] = Tail(@)]
  /\ UNCHANGED <<serverVars, phase, read, gone, clientVars>>

WriteLive(c) ==
  /\ phase[c] = "serving"
  /\ replay[c] = <<>>
  /\ chan[c] # <<>>
  /\ CanWrite(c)
  /\ out' = [out EXCEPT ![c] = Append(@, Head(chan[c]))]
  /\ chan' = [chan EXCEPT ![c] = Tail(@)]
  /\ UNCHANGED <<ledger, pending, fanout, subscribers, panicked, dropped>>
  /\ UNCHANGED <<phase, replay, read, gone, clientVars>>

\* <-ctx.Done(): looked at in the streaming loop only, not in the replay.
NoticeGone(c) ==
  /\ phase[c] = "serving"
  /\ replay[c] = <<>>
  /\ c \in gone
  /\ phase' = [phase EXCEPT ![c] = "closing"]
  /\ UNCHANGED <<serverVars, replay, out, read, gone, clientVars>>

\* Mutant: cancel does not take subMu.
Cancel_WithoutLock(c) ==
  /\ phase[c] = "closing"
  /\ subscribers' = subscribers \ {c}
  /\ phase' = [phase EXCEPT ![c] = "done"]
  /\ UNCHANGED <<ledger, pending, fanout, chan, panicked, dropped>>
  /\ UNCHANGED <<replay, out, read, gone, clientVars>>

\* The deferred cancel: delete the slot and close the channel under subMu.
Cancel(c) ==
  /\ phase[c] = "closing"
  /\ SubMuFree
  /\ subscribers' = subscribers \ {c}
  /\ phase' = [phase EXCEPT ![c] = "done"]
  /\ UNCHANGED <<ledger, pending, fanout, chan, panicked, dropped>>
  /\ UNCHANGED <<replay, out, read, gone, clientVars>>

-----------------------------------------------------------------------------
\* useSSELedger

\* connect(): a new EventSource, at the start or when the timer fires.
Connect ==
  /\ cur = 0 \/ timer
  /\ cur < MaxConn                                            \* bound
  /\ cur' = cur + 1
  /\ timer' = FALSE
  /\ status' = IF status = "connected" THEN "reconnecting" ELSE status
  /\ phase' = [phase EXCEPT ![cur + 1] = "open"]
  /\ UNCHANGED <<serverVars, replay, out, read, gone, entries>>

\* onopen: the response header is there.
OnOpen ==
  /\ cur # 0 /\ cur \notin gone
  /\ status # "connected"
  /\ status' = "connected"
  /\ UNCHANGED <<serverVars, handlerVars, read, gone, cur, timer, entries>>

\* onmessage: append, and keep the last Cap entries.
OnMessage ==
  /\ cur # 0 /\ cur \notin gone
  /\ read[cur] < Len(out[cur])
  /\ read' = [read EXCEPT ![cur] = @ + 1]
  /\ LET next == Append(entries, out[cur][read[cur] + 1])
         cut == IF Len(next) > Cap THEN Len(next) - Cap ELSE 0
     IN  entries' = SubSeq(next, cut + 1, Len(next))
  /\ UNCHANGED <<serverVars, handlerVars, gone, cur, status, timer>>

\* Mutant: the reconnect timer is not armed.
OnError_NoTimer ==
  /\ cur # 0 /\ cur \notin gone
  /\ gone' = gone \cup {cur}
  /\ status' = "reconnecting"
  /\ UNCHANGED timer
  /\ UNCHANGED <<serverVars, handlerVars, read, cur, entries>>

\* onerror, when the network drops the connection (unread events are lost)
\* or the stream has ended: close the EventSource, arm the reconnect timer.
OnError ==
  /\ cur # 0 /\ cur \notin gone
  /\ gone' = gone \cup {cur}
  /\ status' = "reconnecting"
  /\ timer' = TRUE
  /\ UNCHANGED <<serverVars, handlerVars, read, cur, entries>>

\* The handler has returned and everything it wrote has arrived.
StreamEnded == phase[cur] = "done" /\ read[cur] = Len(out[cur])

Memory == AppendLedger \/ BroadcastEnd
            \/ (\E e \in pending : BroadcastStart(e))
            \/ (\E c \in Conn : BroadcastSend(c))

Handler(c) ==
  \/ Subscribe(c) \/ Replay(c) \/ ReplayFails(c)
  \/ WriteReplayed(c) \/ WriteLive(c) \/ NoticeGone(c) \/ Cancel(c)

Client == Connect \/ OnOpen \/ OnMessage \/ OnError

TailNext == Memory \/ Client \/ \E c \in Conn : Handler(c)

\* Goroutines are scheduled, and so is the browser's event loop, which also
\* hears of the end of a stream.  Weak fairness is enough for those who wait for subMu: an
\* instance has finitely many broadcasts to compete with.  What the
\* environment does (append, break a connection, fail a replay) is not fair.
Fairness ==
  /\ \A e \in 1 .. MaxSeq : WF_tailVars(BroadcastStart(e))
  /\ \A c \in Conn : WF_tailVars(BroadcastSend(c))
  /\ WF_tailVars(BroadcastEnd)
  /\ \A c \in Conn :
       /\ WF_tailVars(Subscribe(c)) /\ WF_tailVars(Cancel(c))
       /\ WF_tailVars(Replay(c)) /\ WF_tailVars(WriteReplayed(c))
       /\ WF_tailVars(WriteLive(c)) /\ WF_tailVars(NoticeGone(c))
  /\ WF_tailVars(Connect) /\ WF_tailVars(OnOpen) /\ WF_tailVars(OnMessage)
  /\ WF_tailVars(OnError /\ StreamEnded)

TailSpec == TailInit /\ [][TailNext]_tailVars
FairSpec == TailSpec /\ Fairness

-----------------------------------------------------------------------------
\* Properties

TailTypeOK ==
  /\ ledger \in 0 .. MaxSeq
  /\ pending \subseteq 1 .. ledger
  /\ fanout \in [entry : 0 .. ledger, todo : SUBSET Conn]
  /\ subscribers \subseteq Conn
  /\ panicked \in BOOLEAN
  /\ phase \in [Conn -> {"unused", "open", "subscribed", "serving", "closing", "done"}]
  /\ chan \in [Conn -> Seq(1 .. ledger)] /\ \A c \in Conn : Len(chan[c]) <= Buffer
  /\ replay \in [Conn -> Seq(1 .. ledger)]
  /\ out \in [Conn -> Seq(1 .. ledger)]
  /\ read \in [Conn -> Nat] /\ \A c \in Conn : read[c] <= Len(out[c])
  /\ dropped \in [Conn -> SUBSET (1 .. ledger)]
  /\ gone \subseteq Conn
  /\ cur \in 0 .. MaxConn
  /\ status \in {"connecting", "connected", "reconnecting"}
  /\ timer \in BOOLEAN
  /\ entries \in Seq(1 .. ledger) /\ Len(entries) <= Cap

\* A cancel that closes a channel never overlaps with a broadcast that is
\* about to send on it, because both hold subMu: no interleaving of
\* disconnects and appends makes the daemon panic.
NoSendOnClosed == ~panicked

\* Subscribing before the replay leaves no gap: once a handler has its replay,
\* every entry of the ledger was written, waits in the replay or the channel,
\* is still to be broadcast to it, or was refused by its full channel.
NoGap ==
  \A c \in Conn : phase[c] = "serving" =>
    1 .. ledger \subseteq
      ToSet(out[c]) \cup ToSet(replay[c]) \cup ToSet(chan[c]) \cup dropped[c]
        \cup pending \cup (IF c \in fanout.todo THEN {fanout.entry} ELSE {})

\* ... and at most two copies of an entry go down one connection: one from the
\* replay, and one more if it landed between the subscription and the replay.
AtMostTwice ==
  \A c \in Conn, e \in 1 .. ledger :
    Cardinality({i \in DOMAIN out[c] : out[c][i] = e}) <= 2

EntriesArriveOnce == NoGap /\ AtMostTwice

\* The comment in ledgerTailHandler: nothing appended between the subscription
\* and the end of the replay is dropped.
NothingDroppedInReplay ==
  \A c \in Conn : replay[c] # <<>> => dropped[c] = {}

\* What a client may never see: an entry its connection's channel refused, or
\* anything at all once the bound on connections is used up.
Excused(e) == \/ cur # 0 /\ e \in dropped[cur]
              \/ cur = MaxConn /\ cur \in gone
              \/ cur = MaxConn /\ phase[cur] \in {"closing", "done"}

\* Every entry gets to the dashboard, through disconnects in the middle of a
\* broadcast or of a replay and through failed replays: the client always
\* reconnects, and a new connection replays what the old one missed.
EventuallyShown ==
  \A e \in 1 .. MaxSeq : (e <= ledger) ~> (e \in ToSet(entries) \/ Excused(e))
=============================================================================
