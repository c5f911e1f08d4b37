------------------------------ MODULE IssueLegs ------------------------------
(***************************************************************************)
(* What a leg owes the shift, and the shift a leg, for one issue: where    *)
(* the issue stands between its legs, what the process remembers of it,    *)
(* and what may set the skill on it again.  IssueLoop runs the legs and    *)
(* Drain strings them together; each is shown to keep this.                *)
(***************************************************************************)
EXTENDS Naturals

VARIABLES
    stands,   \* free, working, asked, parked, done, or gone with the process
    tally,    \* what its runs cost so far, kept while it is put down
    replied,  \* it is asked, and somebody wrote since
    flagged,  \* it is asked, and its question's flag is seen to be up
    shift     \* how often the process was started again

legs == <<stands, tally, replied, flagged, shift>>

Goes(to) == stands' = to /\ shift' = shift
NoQuestion == ~replied' /\ ~flagged'

Init ==
    /\ stands = "free" /\ tally = 0 /\ shift = 0
    /\ replied = FALSE /\ flagged = FALSE

(* An issue put down with a question is taken up again on a reply, or when *)
(* its flag is gone; one that was parked never is, in this shift.          *)
Start ==
    /\ stands \in {"free", "done", "asked"} /\ (replied \/ ~flagged)
    /\ Goes("working") /\ NoQuestion /\ tally' = tally

Spend ==
    /\ stands = "working" /\ Goes("working") /\ NoQuestion
    /\ tally' >= tally

(* A pickup whose fetch was refused worked nothing.                        *)
Hold ==
    /\ stands = "working" /\ Goes("free") /\ NoQuestion
    /\ tally' = tally

(* Nothing anybody wrote before the question counts as its answer.         *)
PutDown ==
    /\ stands = "working" /\ Goes("asked")
    /\ ~replied' /\ flagged' \in BOOLEAN
    /\ tally' >= tally

(* The books are closed on an issue that came to an ending.                *)
Finish ==
    /\ stands = "working" /\ (Goes("parked") \/ Goes("done")) /\ NoQuestion
    /\ tally' = 0

(* A question stays put until the issue is taken up: a reply to it is not  *)
(* lost, whoever turns its flag.                                           *)
Wait ==
    /\ stands = "asked" /\ Goes("asked")
    /\ (replied => replied') /\ flagged' \in BOOLEAN
    /\ tally' = tally

Stop == Goes("gone") /\ NoQuestion /\ tally' = 0

NewShift ==
    /\ stands' = "free" /\ shift' = shift + 1
    /\ NoQuestion /\ tally' = 0

Next == Start \/ Spend \/ Hold \/ PutDown \/ Finish \/ Wait \/ Stop \/ NewShift

Spec == Init /\ [][Next]_legs
=============================================================================
