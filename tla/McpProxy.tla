------------------------------ MODULE McpProxy ------------------------------
(* `agentlock mcp-proxy` (cli/src/commands/mcp-proxy.ts): the process between  *)
(* Claude Desktop, the host, and one MCP server, its child. Lines of the host  *)
(* are identified by their place, which is also the id of a request.           *)
EXTENDS Integers, Sequences, SequencesExt, FiniteSets, Selection

CONSTANTS
  MaxLines,   \* lines the host sends
  ServerIds   \* ids that the child uses for requests of its own

ASSUME ProxyAssumption == MaxLines \in Nat /\ ServerIds \subseteq 1..MaxLines

VARIABLES
  pxLines,    \* kinds of the lines received: "call", "request", "note"
  pxAt,       \* the line that processingChain has come to
  pxAsking,   \* whether that line waits for the daemon
  pxDenied,   \* calls that the daemon has refused
  pxChild,    \* lines written to the child, in order
  pxPending,  \* pendingToolCalls: ids of calls the child is at work on
  pxOut,      \* answers written to the host: [id, by]
  pxPosts,    \* calls reported as completed
  pxStdin     \* "open", "ended" (by the host), "closed" (for the child), "exited"

pxVars == <<pxLines, pxAt, pxAsking, pxDenied, pxChild, pxPending, pxOut, pxPosts, pxStdin>>

Running == pxStdin # "exited"
Done == 1..(pxAt - 1)

\* Lines cut from the chunks that arrive, queued behind the ones before.
HostSends ==
  /\ pxStdin = "open" /\ Len(pxLines) < MaxLines
  /\ \E kind \in {"call", "request", "note"} : pxLines' = Append(pxLines, kind)
  /\ UNCHANGED <<pxAt, pxAsking, pxDenied, pxChild, pxPending, pxOut, pxPosts, pxStdin>>

HostEnds ==
  /\ pxStdin = "open" /\ pxStdin' = "ended"
  /\ UNCHANGED <<pxLines, pxAt, pxAsking, pxDenied, pxChild, pxPending, pxOut, pxPosts>>

\* processLine, up to the question for a call; other lines, malformed ones among
\* them, go to the child as they are.
processLine ==
  /\ Running /\ ~pxAsking /\ pxAt <= Len(pxLines)
  /\ IF pxLines[pxAt] = "call"
       THEN pxAsking' = TRUE /\ UNCHANGED <<pxAt, pxChild>>
       ELSE pxChild' = Append(pxChild, pxAt) /\ pxAt' = pxAt + 1 /\ UNCHANGED pxAsking
  /\ UNCHANGED <<pxLines, pxDenied, pxPending, pxOut, pxPosts, pxStdin>>

\* The tool error that stands for the child's answer.
denyResponseFor(n) == [id |-> n, by |-> "proxy"]

\* Mutant: a line that was refused goes to the child all the same.
Decided_Forwards(decision) ==
  /\ Running /\ pxAsking
  /\ pxAsking' = FALSE /\ pxAt' = pxAt + 1
  /\ pxOut' = IF decision = "deny" THEN Append(pxOut, denyResponseFor(pxAt)) ELSE pxOut
  /\ pxPending' = IF decision = "deny" THEN pxPending ELSE pxPending \cup {pxAt}
  /\ pxChild' = Append(pxChild, pxAt)
  /\ UNCHANGED <<pxLines, pxPosts, pxStdin>>

\* processLine, from the decision on.
Decided(decision) ==
  /\ Running /\ pxAsking
  /\ pxAsking' = FALSE /\ pxAt' = pxAt + 1
  /\ IF decision = "deny"
       THEN /\ pxOut' = Append(pxOut, denyResponseFor(pxAt))
            /\ UNCHANGED <<pxPending, pxChild>>
       ELSE /\ pxPending' = pxPending \cup {pxAt}
            /\ pxChild' = Append(pxChild, pxAt)
            /\ UNCHANGED pxOut
  /\ UNCHANGED <<pxLines, pxPosts, pxStdin>>

\* callPreToolUse: the daemon's decision, or allow when there is none.
callPreToolUse ==
  \/ \E d \in {"allow", "deny", "ask"} :
       /\ Decided(d)
       /\ pxDenied' = IF d = "deny" THEN pxDenied \cup {pxAt} ELSE pxDenied
  \/ Decided("allow") /\ UNCHANGED pxDenied

\* A line from the child: passed on, and reported if a call waits for its id.
FromChild(line) ==
  /\ pxOut' = Append(pxOut, line)
  /\ pxPending' = pxPending \ {line.id}
  /\ pxPosts' = IF line.id \in pxPending THEN pxPosts \cup {line.id} ELSE pxPosts
  /\ UNCHANGED <<pxLines, pxAt, pxAsking, pxDenied, pxChild, pxStdin>>

Answered(n) == \E i \in DOMAIN pxOut : pxOut[i].id = n /\ pxOut[i].by \in {"child", "proxy"}

ChildAnswers ==
  /\ Running
  /\ \E i \in DOMAIN pxChild :
       /\ pxLines[pxChild[i]] # "note" /\ ~Answered(pxChild[i])
       /\ FromChild([id |-> pxChild[i], by |-> "child"])

\* Sampling, roots and elicitation: a request with an id of the child's own.
ChildRequests ==
  /\ Running
  /\ \E n \in ServerIds :
       /\ [id |-> n, by |-> "server"] \notin ToSet(pxOut)
       /\ FromChild([id |-> n, by |-> "server"])

\* The end of the host's input follows the last line.
EndChildInput ==
  /\ pxStdin = "ended" /\ ~pxAsking /\ pxAt > Len(pxLines)
  /\ pxStdin' = "closed"
  /\ UNCHANGED <<pxLines, pxAt, pxAsking, pxDenied, pxChild, pxPending, pxOut, pxPosts>>

\* The child ends or could not be started: so does the proxy.
ChildExits ==
  /\ Running /\ pxStdin' = "exited"
  /\ UNCHANGED <<pxLines, pxAt, pxAsking, pxDenied, pxChild, pxPending, pxOut, pxPosts>>

pxInit ==
  /\ pxLines = <<>> /\ pxAt = 1 /\ pxAsking = FALSE /\ pxDenied = {}
  /\ pxChild = <<>> /\ pxPending = {} /\ pxOut = <<>> /\ pxPosts = {} /\ pxStdin = "open"

ProxySteps == processLine \/ callPreToolUse \/ EndChildInput
pxNext == HostSends \/ HostEnds \/ ProxySteps \/ ChildAnswers \/ ChildRequests \/ ChildExits
pxSpec == pxInit /\ [][pxNext]_pxVars

-----------------------------------------------------------------------------
\* What reaches the child is what the host sent, in that order and whole, without
\* the calls the daemon refused, although each call waits for its decision while
\* the next lines and the child's answers come in (processingChain).
ChildSeesInOrder ==
  pxChild = Among([n \in Done |-> n], Done \ pxDenied)

\* A refused call has one answer, the proxy's, and no request has two.
OneAnswer ==
  /\ \A n \in pxDenied : \E i \in DOMAIN pxOut : pxOut[i] = denyResponseFor(n)
  /\ \A i, j \in DOMAIN pxOut :
       pxOut[i].id = pxOut[j].id /\ pxOut[i].by # "server" /\ pxOut[j].by # "server" => i = j

\* "when the matching response comes back": the calls reported as completed are
\* those that the child has answered, as far as it has no request of that id.
PostsAreAnswersOf(ids) ==
  pxPosts \cap ids =
    {n \in DOMAIN pxLines \cap ids :
       pxLines[n] = "call" /\ [id |-> n, by |-> "child"] \in ToSet(pxOut)}

ProxyHolds == ChildSeesInOrder /\ OneAnswer /\ PostsAreAnswersOf(1..MaxLines \ ServerIds)

\* Not so for the other ids: a request of the child passes for the answer.
PostsAreAnswers == PostsAreAnswersOf(1..MaxLines)

\* Every line is dealt with while the child runs, and the end of the input has
\* reached it: where the proxy must come to and stay.
LinesSettled ==
  /\ \A n \in DOMAIN pxLines : n \in Done \/ ~Running
  /\ pxStdin # "ended"
=============================================================================
