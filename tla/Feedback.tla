------------------------------- MODULE Feedback -------------------------------
(***************************************************************************)
(* After the appointment: the customer confirms they will attend, reviews  *)
(* the finished booking and marks reviews helpful; the salon's rating is   *)
(* worked out again after each review, and the salon replies to it; and a  *)
(* payment is asked back, while a cancellation may already be refunding    *)
(* it.  A request reads first and writes afterwards; a process may die in  *)
(* between, and an answer of the database may be lost on the way.          *)
(***************************************************************************)
EXTENDS Naturals, FiniteSets

CONSTANTS
  Orders,    \* finished bookings of one salon, each by a customer of its own
  NoOrder,
  Forms,     \* sends of the review form; a review is named after its send
  EarlierReview, \* one the previous program stored, under the customer's account
  Voters,    \* customers reading the salon's page
  Asks,      \* requests being served for one payment
  Paid,      \* what was paid
  Fees,      \* what staff may set as the fee of an early cancellation
  MaxLostAnswers \* writes done whose answer was lost (a bound of the model)

Reviews == Forms \union {EarlierReview}

ASSUME FeedbackAssumptions ==
  /\ NoOrder \notin Orders \union Reviews /\ EarlierReview \notin Forms
  /\ Paid \in Nat /\ Fees \subseteq Nat
  /\ MaxLostAnswers \in Nat

VARIABLES
  form,      \* of each send: its step, its booking, and the reviews it averages
  about,     \* of each review: its booking (NoOrder: not stored)
  rated,     \* the reviews the salon's saved rating covers
  replied,   \* reviews with a reply
  votes,     \* the Redis set of each review's voters
  likes,     \* reviews.likes
  voting,    \* of each voter: the review whose count is being raised, or none
  lostAnswers,
  attends,   \* clientConfirmedAt is set
  toldOfIt,  \* times the salon was told so
  ask,       \* of each request on the payment: its step, and what it read
  claimed,   \* a cancellation has taken the payment on
  owed,      \* what it is to give back
  refund,    \* the payment's refunds row
  atStripe,  \* what Stripe has given back
  teamTold   \* times a refund request was passed on

reviewVars == <<form, about, rated, replied, votes, likes, voting, lostAnswers>>
bookingVars == <<attends, toldOfIt>>
moneyVars == <<claimed, owed, refund, atStripe, teamTold>>
feedbackVars == <<reviewVars, bookingVars, ask, moneyVars>>

NoForm == [pc |-> "idle", of |-> NoOrder, over |-> {}]
NoRefund == [status |-> "none", amount |-> 0]
Stored == {r \in Reviews : about[r] # NoOrder} \union {EarlierReview}
NoVote == NoOrder

FeedbackTypeOK ==
  /\ form \in [Forms -> [pc : {"idle", "store", "average", "save"}, of : Orders \union {NoOrder}, over : SUBSET Reviews]]
  /\ about \in [Reviews -> Orders \union {NoOrder}]
  /\ rated \subseteq Reviews /\ replied \subseteq Stored
  /\ votes \in [Reviews -> SUBSET Voters] /\ likes \in [Reviews -> 0..Cardinality(Voters) + MaxLostAnswers]
  /\ voting \in [Voters -> Reviews \union {NoVote}] /\ lostAnswers \in 0..MaxLostAnswers
  /\ attends \in BOOLEAN /\ toldOfIt \in 0..Cardinality(Asks)
  /\ ask \in [Asks -> {"idle", "attend", "ask", "refund", "record"}]
  /\ claimed \in BOOLEAN /\ owed \in 0..Paid
  /\ refund \in [status : {"none", "pending", "processed"}, amount : 0..Paid]
  /\ atStripe \in 0..Paid /\ teamTold \in Nat

-----------------------------------------------------------------------------
(* Reviews. *)

\* The booking is finished, and has no review yet.
RateBooking(f) ==
  /\ form[f].pc = "idle" /\ about[f] = NoOrder
  /\ \E o \in Orders : (\A r \in Reviews : about[r] # o) /\ form' = [form EXCEPT ![f] = [pc |-> "store", of |-> o, over |-> {}]]
  /\ UNCHANGED <<about, rated, replied, votes, likes, voting, lostAnswers, bookingVars, ask, moneyVars>>

\* Stored under the salon's client record of this customer.
StoreReview(f) ==
  /\ form[f].pc = "store"
  /\ about' = [about EXCEPT ![f] = form[f].of]
  /\ form' = [form EXCEPT ![f].pc = "average"]
  /\ UNCHANGED <<rated, replied, votes, likes, voting, lostAnswers, bookingVars, ask, moneyVars>>

\* refreshSalonRating is one UPDATE: it averages the reviews of its own
\* snapshot, and then waits for the salon's row if another holds it.
Average(f) ==
  /\ form[f].pc = "average"
  /\ form' = [form EXCEPT ![f].pc = "save", ![f].over = Stored]
  /\ UNCHANGED <<about, rated, replied, votes, likes, voting, lostAnswers, bookingVars, ask, moneyVars>>

SaveRating(f) ==
  /\ form[f].pc = "save"
  /\ rated' = form[f].over
  /\ form' = [form EXCEPT ![f] = NoForm]
  /\ UNCHANGED <<about, replied, votes, likes, voting, lostAnswers, bookingVars, ask, moneyVars>>

ReviewInterrupted(f) ==
  /\ form[f].pc # "idle"
  /\ form' = [form EXCEPT ![f] = NoForm]
  /\ UNCHANGED <<about, rated, replied, votes, likes, voting, lostAnswers, bookingVars, ask, moneyVars>>

\* listRows, for a client of the salon: reviews under the accounts of the
\* client's email.  A booking's own review is under the client record.
ListedForClient == {EarlierReview}

\* replyToReview: the update takes a review without a reply only.
ReplyToReview ==
  /\ \E r \in ListedForClient \ replied : replied' = replied \union {r}
  /\ UNCHANGED <<form, about, rated, votes, likes, voting, lostAnswers, bookingVars, ask, moneyVars>>

\* Mutant: a customer's second tap is counted as well.
MarkAnyTap(c) ==
  /\ voting[c] = NoVote
  /\ \E r \in Stored : votes' = [votes EXCEPT ![r] = @ \union {c}] /\ voting' = [voting EXCEPT ![c] = r]
  /\ UNCHANGED <<form, about, rated, replied, likes, lostAnswers, bookingVars, ask, moneyVars>>

\* markReviewHelpful: SADD says whether it is this customer's first vote.
MarkReviewHelpful(c) ==
  /\ voting[c] = NoVote
  /\ \E r \in Stored : c \notin votes[r] /\ votes' = [votes EXCEPT ![r] = @ \union {c}] /\ voting' = [voting EXCEPT ![c] = r]
  /\ UNCHANGED <<form, about, rated, replied, likes, lostAnswers, bookingVars, ask, moneyVars>>

CountVote(c) ==
  /\ voting[c] # NoVote
  /\ likes' = [likes EXCEPT ![voting[c]] = @ + 1]
  /\ voting' = [voting EXCEPT ![c] = NoVote]
  /\ UNCHANGED <<form, about, rated, replied, votes, lostAnswers, bookingVars, ask, moneyVars>>

\* The update failed, or was done and its answer lost: the vote is taken back.
TakeVoteBack(c) ==
  /\ voting[c] # NoVote
  /\ \/ UNCHANGED <<likes, lostAnswers>>
     \/ lostAnswers < MaxLostAnswers /\ lostAnswers' = lostAnswers + 1 /\ likes' = [likes EXCEPT ![voting[c]] = @ + 1]
  /\ votes' = [votes EXCEPT ![voting[c]] = @ \ {c}]
  /\ voting' = [voting EXCEPT ![c] = NoVote]
  /\ UNCHANGED <<form, about, rated, replied, bookingVars, ask, moneyVars>>

\* The process dies with the vote in Redis and not in the table.
VoteInterrupted(c) ==
  /\ voting[c] # NoVote
  /\ voting' = [voting EXCEPT ![c] = NoVote]
  /\ UNCHANGED <<form, about, rated, replied, votes, likes, lostAnswers, bookingVars, ask, moneyVars>>

-----------------------------------------------------------------------------
(* Attendance, and money asked back. *)

\* confirmAvailability: a booking confirmed already is answered as it is.
ConfirmAvailability(q) ==
  /\ ask[q] = "idle" /\ ~attends
  /\ ask' = [ask EXCEPT ![q] = "attend"]
  /\ UNCHANGED <<reviewVars, bookingVars, moneyVars>>

\* The update leaves an earlier time; the salon is told either way.
AnnounceAvailability(q) ==
  /\ ask[q] = "attend"
  /\ attends' = TRUE
  /\ toldOfIt' = toldOfIt + 1
  /\ ask' = [ask EXCEPT ![q] = "idle"]
  /\ UNCHANGED <<reviewVars, moneyVars>>

\* toView of the payment.
ShownAs ==
  CASE refund.amount >= Paid -> "refunded"
    [] refund.amount \in 1..(Paid - 1) -> "partially_refunded"
    [] OTHER -> "paid"
RefundRequested == refund.status = "pending" /\ refund.amount = 0
CanRequestRefund == ShownAs = "paid" /\ refund.status = "none"

RequestRefund(q) ==
  /\ ask[q] = "idle" /\ ~RefundRequested /\ CanRequestRefund
  /\ ask' = [ask EXCEPT ![q] = "ask"]
  /\ UNCHANGED <<reviewVars, bookingVars, moneyVars>>

\* refunds.transactionId is unique: a second row is REFUND_ALREADY_REQUESTED.
CreateRequest(q) ==
  /\ ask[q] = "ask"
  /\ IF refund.status # "none" THEN UNCHANGED moneyVars
     ELSE refund' = [status |-> "pending", amount |-> 0] /\ teamTold' = teamTold + 1 /\ UNCHANGED <<claimed, owed, atStripe>>
  /\ ask' = [ask EXCEPT ![q] = "idle"]
  /\ UNCHANGED <<reviewVars, bookingVars>>

\* claimHeldPayments: an early cancellation takes the payment, once.  The
\* customer's keeps the fee - assertRefundable refuses one that leaves nothing,
\* unless the payment was settled after it looked - and the salon's keeps none.
CancelEarly(q) ==
  /\ ask[q] = "idle" /\ ~claimed
  /\ claimed' = TRUE
  /\ \E fee \in Fees \union {0} : owed' = IF fee < Paid THEN Paid - fee ELSE 0
  /\ ask' = [ask EXCEPT ![q] = "refund"]
  /\ UNCHANGED <<reviewVars, bookingVars, refund, atStripe, teamTold>>

\* A refund that fails - Stripe makes none of nothing - is flagged to KHS, and
\* not tried again by the code.
RefundPayment(q) ==
  /\ ask[q] = "refund"
  /\ \/ owed > 0 /\ atStripe' = atStripe + owed /\ ask' = [ask EXCEPT ![q] = "record"]
     \/ ask' = [ask EXCEPT ![q] = "idle"] /\ UNCHANGED atStripe
  /\ UNCHANGED <<reviewVars, bookingVars, claimed, owed, refund, teamTold>>

\* A pending request is settled by it.
RecordRefund(q) ==
  /\ ask[q] = "record"
  /\ refund' = [status |-> "processed", amount |-> refund.amount + owed]
  /\ ask' = [ask EXCEPT ![q] = "idle"]
  /\ UNCHANGED <<reviewVars, bookingVars, claimed, owed, atStripe, teamTold>>

AskInterrupted(q) ==
  /\ ask[q] # "idle"
  /\ ask' = [ask EXCEPT ![q] = "idle"]
  /\ UNCHANGED <<reviewVars, bookingVars, moneyVars>>

FeedbackInit ==
  /\ form = [f \in Forms |-> NoForm]
  /\ about = [r \in Reviews |-> NoOrder]
  /\ rated = {EarlierReview} /\ replied = {}
  /\ votes = [r \in Reviews |-> {}] /\ likes = [r \in Reviews |-> 0]
  /\ voting = [c \in Voters |-> NoVote] /\ lostAnswers = 0
  /\ attends = FALSE /\ toldOfIt = 0
  /\ ask = [q \in Asks |-> "idle"]
  /\ claimed = FALSE /\ owed = 0 /\ refund = NoRefund /\ atStripe = 0 /\ teamTold = 0

FeedbackNext ==
  \/ ReplyToReview
  \/ \E f \in Forms : RateBooking(f) \/ StoreReview(f) \/ Average(f) \/ SaveRating(f) \/ ReviewInterrupted(f)
  \/ \E c \in Voters : MarkReviewHelpful(c) \/ CountVote(c) \/ TakeVoteBack(c) \/ VoteInterrupted(c)
  \/ \E q \in Asks :
       \/ ConfirmAvailability(q) \/ AnnounceAvailability(q) \/ RequestRefund(q) \/ CreateRequest(q)
       \/ CancelEarly(q) \/ RefundPayment(q) \/ RecordRefund(q) \/ AskInterrupted(q)

-----------------------------------------------------------------------------
(* Properties. *)

\* "so each customer counts once": a review's count is of different customers,
\* but for answers of the database that were lost.  And a payment's refunds row,
\* whether the request or a cancellation makes it, the customer's or the salon's,
\* and in whichever order: the team is told once, a request returns no money,
\* and what a recorded refund says is what Stripe gave back, in part or in full.
FeedbackCounted ==
  /\ \A r \in Reviews : likes[r] <= Cardinality(votes[r]) + lostAnswers
  /\ teamTold <= 1
  /\ atStripe <= Paid
  /\ refund.amount > 0 => refund = [status |-> "processed", amount |-> atStripe]
  /\ refund.amount = 0 => ~(refund.status = "processed")

\* bookingFeedbackService.ts: "One review per booking."
OneReviewPerBooking == \A r, s \in Reviews : about[r] # NoOrder /\ about[r] = about[s] => r = s

\* clientReviews.ts: the client's reviews of the salon are there to reply to.
ReviewsReachSalon == Stored \subseteq ListedForClient

\* "The salon's average rating and review count, from its reviews": a rating
\* worked out for one review does not leave out another it already covered.
RatingKeepsReviews == [][rated \subseteq rated']_feedbackVars

\* "Once per booking; the salon is told."
AttendanceToldOnce == toldOfIt <= 1
=============================================================================
