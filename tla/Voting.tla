------------------------------- MODULE Voting -------------------------------
(***************************************************************************)
(* labs/lab5/example_voting/solution/main.go: in each round ten goroutines   *)
(* vote for a word, adding to ballotBox under a mutex; main waits for them   *)
(* through a WaitGroup and looks for the winner, and votes again on a tie.   *)
(***************************************************************************)
EXTENDS Integers, FiniteSets

CONSTANTS
  Words,   \* how many words there are in text
  Votes    \* how many votes a round has

ConstantsOK == Words \in Nat \ {0} /\ Votes \in Nat \ {0}

Word == 1 .. Words
Voter == 1 .. Votes
None == 0    \* the winner before any word has a vote
Free == 0    \* nobody has the mutex
Main == -1

VARIABLES
  main,          \* where main stands
  cast,          \* how many goroutines of this round have been started
  ballotBox, mutex, waitGroup,
  vote, pc, old, \* the word of each goroutine, its place, the count it read
  word, maxVotes, winner, tied    \* locals of getWinner

counting == <<word, maxVotes, winner, tied>>
voters == <<vote, pc, old>>
vars == <<main, cast, ballotBox, mutex, waitGroup, voters, counting>>

Init ==
  /\ main = "reset" /\ cast = 0
  /\ ballotBox = [w \in Word |-> 0] /\ mutex = Free /\ waitGroup = 0
  /\ vote = [v \in Voter |-> None] /\ pc = [v \in Voter |-> "none"]
  /\ old = [v \in Voter |-> 0]
  /\ word = 1 /\ maxVotes = 0 /\ winner = None /\ tied = FALSE

-----------------------------------------------------------------------------
(* main *)

resetBallotBox ==
  /\ main = "reset" /\ mutex = Free
  /\ ballotBox' = [w \in Word |-> 0]
  /\ cast' = 0
  /\ pc' = [v \in Voter |-> "none"]
  /\ main' = "cast"
  /\ UNCHANGED <<mutex, waitGroup, vote, old, counting>>

StartVote(w) ==
  /\ main = "cast" /\ cast < Votes
  /\ waitGroup' = waitGroup + 1
  /\ cast' = cast + 1
  /\ vote' = [vote EXCEPT ![cast + 1] = w]
  /\ pc' = [pc EXCEPT ![cast + 1] = "lock"]
  /\ UNCHANGED <<main, ballotBox, mutex, old, counting>>

(* waitGroup.Wait(), and getWinner takes the mutex. *)
Wait ==
  /\ main = "cast" /\ cast = Votes /\ waitGroup = 0 /\ mutex = Free
  /\ mutex' = Main
  /\ main' = "count"
  /\ word' = 1 /\ maxVotes' = 0 /\ winner' = None /\ tied' = FALSE
  /\ UNCHANGED <<cast, ballotBox, waitGroup, voters>>

(* One turn of the loop of getWinner. *)
Count ==
  /\ main = "count" /\ word <= Words
  /\ IF ballotBox[word] > maxVotes
     THEN maxVotes' = ballotBox[word] /\ winner' = word /\ tied' = FALSE
     ELSE /\ tied' = (tied \/ ballotBox[word] = maxVotes)
          /\ UNCHANGED <<maxVotes, winner>>
  /\ word' = word + 1
  /\ UNCHANGED <<main, cast, ballotBox, mutex, waitGroup, voters>>

getWinner ==
  /\ main = "count" /\ word > Words
  /\ mutex' = Free
  /\ main' = IF tied THEN "reset" ELSE "end"
  /\ UNCHANGED <<cast, ballotBox, waitGroup, voters, counting>>

-----------------------------------------------------------------------------
(* castVote, in a goroutine of its own *)

(* Mutant: nobody takes the mutex. *)
Lock_never(v) ==
  /\ pc[v] = "lock"
  /\ mutex' = mutex
  /\ pc' = [pc EXCEPT ![v] = "read"]
  /\ UNCHANGED <<main, cast, ballotBox, waitGroup, vote, old, counting>>

Lock(v) ==
  /\ pc[v] = "lock" /\ mutex = Free
  /\ mutex' = v
  /\ pc' = [pc EXCEPT ![v] = "read"]
  /\ UNCHANGED <<main, cast, ballotBox, waitGroup, vote, old, counting>>

(* ballotBox[word]++ reads and then writes. *)
Read(v) ==
  /\ pc[v] = "read"
  /\ old' = [old EXCEPT ![v] = ballotBox[vote[v]]]
  /\ pc' = [pc EXCEPT ![v] = "write"]
  /\ UNCHANGED <<main, cast, ballotBox, mutex, waitGroup, vote, counting>>

Write(v) ==
  /\ pc[v] = "write"
  /\ ballotBox' = [ballotBox EXCEPT ![vote[v]] = old[v] + 1]
  /\ mutex' = Free
  /\ pc' = [pc EXCEPT ![v] = "done"]
  /\ UNCHANGED <<main, cast, waitGroup, vote, old, counting>>

Done(v) ==
  /\ pc[v] = "done"
  /\ waitGroup' = waitGroup - 1
  /\ pc' = [pc EXCEPT ![v] = "ended"]
  /\ UNCHANGED <<main, cast, ballotBox, mutex, vote, old, counting>>

castVote(v) == Lock(v) \/ Read(v) \/ Write(v) \/ Done(v)

Terminated == main = "end" /\ UNCHANGED vars

Next ==
  \/ resetBallotBox \/ (\E w \in Word : StartVote(w)) \/ Wait \/ Count \/ getWinner
  \/ \E v \in Voter : castVote(v)
  \/ Terminated

Spec == Init /\ [][Next]_vars

-----------------------------------------------------------------------------
For(w) == {v \in Voter : vote[v] = w}

(* The winner that main announces has more votes of this round than any      *)
(* other word, maxVotes of them, and a round is repeated only if no word     *)
(* has: no vote is lost or counted twice, or counted in a later round, and   *)
(* words without a vote cause no tie.                                        *)
WinnerTrue ==
  /\ main = "end" =>
       /\ winner \in Word /\ maxVotes = Cardinality(For(winner))
       /\ \A w \in Word \ {winner} : Cardinality(For(w)) < maxVotes
  /\ main = "count" /\ word > Words /\ tied =>
       \A x \in Word : \E w \in Word \ {x} : Cardinality(For(w)) >= Cardinality(For(x))
=============================================================================
