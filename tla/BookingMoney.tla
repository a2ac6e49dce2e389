----------------------------- MODULE BookingMoney -----------------------------
(***************************************************************************)
(* What a booking costs and who gets it, in whole cents: the quote (gift   *)
(* card, deposit, first-booking discount, card processing fee), KHS's fees *)
(* on the salon, and where the money goes when the booking is finished,    *)
(* cancelled early or cancelled late.                                      *)
(*                                                                         *)
(* One customer books several times at one salon and pays for the bookings *)
(* in any order, while staff edit the platform's payment settings.  The    *)
(* races inside one payment are BookingPayments'; here each handler is one *)
(* step and the amounts are exact.  Rates are in hundredths of a percent.  *)
(***************************************************************************)
EXTENDS Integers

CONSTANTS
  Orders,
  Price,         \* service total of each order
  GiftValue,     \* on the customer's gift card, sold by this salon
  SessionPrice,  \* pricePerSession of the customer's membership
  Stored,        \* what platform_settings.payments may hold
  Unset          \* a value that is missing or unreadable

ASSUME MoneyAssumptions ==
  /\ Price \in [Orders -> Nat] /\ GiftValue \in Nat /\ SessionPrice \in Nat
  /\ Unset \in Int \ Nat

VARIABLES
  stored,    \* platform_settings.payments
  founding,  \* the salon's founding months run: it pays no commission
  order,     \* each order's stage
  quote,     \* its last quote, with the fees worked out for it
  gift,      \* left on the gift card
  claimed,   \* the order that claimed the acquisition fee, once one has
  salon,     \* what the salon's wallet got for each order (less what it was charged)
  back       \* what went back to the customer's card

moneyVars == <<stored, founding, order, quote, gift, claimed, salon, back>>

\* Math.round(n / d) for n >= 0.
RoundDiv(n, d) == (2 * n + d) \div (2 * d)
Least(a, b) == IF a <= b THEN a ELSE b

-----------------------------------------------------------------------------
(* The settings. *)

NumberOr(value, default) == IF value >= 0 THEN value ELSE default

Defaults ==
  [commissionRate |-> 1200, acquisitionRate |-> 1000, passthroughRate |-> 175, passthroughFixed |-> 30,
   earlyFee |-> 1000, lateShare |-> 7000, discountRate |-> 300]

\* numberOr: what is no number counts as unset.
ASSUME StoredAssumption == Stored \subseteq [DOMAIN Defaults -> Int]

\* getPaymentSettings; the two shares of a whole are capped at 100 %.
Settings ==
  [s \in DOMAIN Defaults |->
     LET value == NumberOr(stored[s], Defaults[s])
     IN IF s \in {"lateShare", "discountRate"} THEN Least(10000, value) ELSE value]

CommissionRate == IF founding THEN 0 ELSE Settings.commissionRate

-----------------------------------------------------------------------------
(* The quote. *)

ProcessingFee(base) ==
  IF base <= 0 THEN 0 ELSE RoundDiv(base * Settings.passthroughRate + Settings.passthroughFixed * 10000, 10000)

\* No other booking of the customer's was paid for, completed or missed.
IsFirstBooking(o) == \A p \in Orders \ {o} : order[p] \notin {"paid", "finished"}

FirstBookingDiscount(o) == RoundDiv(Price[o] * Settings.discountRate, 10000)

\* KHS's fees on the full price: the acquisition fee until a booking claimed it.
BookingFees(o) ==
  [commission |-> RoundDiv(Price[o] * CommissionRate, 10000),
   acquisition |-> IF claimed = {} THEN RoundDiv(Price[o] * Settings.acquisitionRate, 10000) ELSE 0]

QuotePayment(o, deposit, withGift) ==
  LET giftPart == IF deposit \/ ~withGift THEN 0 ELSE Least(gift, Price[o])
      before == IF deposit THEN RoundDiv(Price[o], 2) ELSE Price[o] - giftPart
      offer == IF ~withGift /\ IsFirstBooking(o) THEN FirstBookingDiscount(o) ELSE 0
      discount == Least(offer, before)
      base == before - discount
  IN [gift |-> giftPart, discount |-> discount, base |-> base, fee |-> ProcessingFee(base),
      balance |-> IF deposit THEN Price[o] - before ELSE 0,
      commission |-> BookingFees(o).commission, acquisition |-> BookingFees(o).acquisition]

NoQuote == [gift |-> 0, discount |-> 0, base |-> 0, fee |-> 0, balance |-> 0, commission |-> 0, acquisition |-> 0]

MinCardCharge == 50

Charge(q) == q.base + q.fee

-----------------------------------------------------------------------------
(* Paying. *)

Payable(o) == order[o] \in {"unpaid", "quoted"} /\ Price[o] > 0

\* startCardPayment: a later attempt replaces the order's earlier one.
StartCardPayment(o) ==
  /\ Payable(o)
  /\ \E deposit, withGift \in BOOLEAN :
       /\ ~(deposit /\ withGift)
       /\ withGift => gift > 0
       /\ LET q == QuotePayment(o, deposit, withGift)
          IN /\ Charge(q) >= MinCardCharge
             /\ quote' = [quote EXCEPT ![o] = q]
  /\ order' = [order EXCEPT ![o] = "quoted"]
  /\ UNCHANGED <<stored, founding, gift, claimed, salon, back>>

SettleWithFee(o) ==
  /\ order[o] = "quoted"
  /\ order' = [order EXCEPT ![o] = "paid"]
  /\ gift' = gift - Least(gift, quote[o].gift)
  /\ claimed' = IF quote[o].acquisition > 0 /\ claimed = {} THEN {o} ELSE claimed
  /\ UNCHANGED <<stored, founding, quote, salon, back>>

\* settlePaidIntent: the gift card gives what it still has (staff settle the
\* rest); a fee another booking claimed meanwhile is waived.
Settle(o) ==
  LET waived == quote[o].acquisition > 0 /\ claimed # {}
  IN /\ order[o] = "quoted"
     /\ order' = [order EXCEPT ![o] = "paid"]
     /\ gift' = gift - Least(gift, quote[o].gift)
     /\ quote' = IF waived THEN [quote EXCEPT ![o].acquisition = 0] ELSE quote
     /\ claimed' = IF quote[o].acquisition > 0 /\ claimed = {} THEN {o} ELSE claimed
     /\ UNCHANGED <<stored, founding, salon, back>>

\* payWithGiftCard: the card covers the booking; the salon was paid when it
\* sold the card, so its wallet is charged the fees.
PayWithGiftCard(o) ==
  /\ Payable(o) /\ gift >= Price[o]
  /\ LET fees == BookingFees(o)
     IN /\ claimed' = IF fees.acquisition > 0 THEN {o} ELSE claimed
        /\ salon' = [salon EXCEPT ![o] = @ - fees.acquisition - fees.commission]
        /\ quote' = [quote EXCEPT ![o] = [NoQuote EXCEPT !.gift = Price[o], !.commission = fees.commission, !.acquisition = fees.acquisition]]
  /\ gift' = gift - Price[o]
  /\ order' = [order EXCEPT ![o] = "paid"]
  /\ UNCHANGED <<stored, founding, back>>

\* payWithMembership: a session was paid for with the membership; the salon
\* is credited its price less commission.
PayWithSession(o) ==
  /\ Payable(o)
  /\ LET commission == RoundDiv(SessionPrice * CommissionRate, 10000)
     IN /\ salon' = [salon EXCEPT ![o] = @ + (SessionPrice - commission)]
        /\ quote' = [quote EXCEPT ![o] = [NoQuote EXCEPT !.commission = commission]]
  /\ order' = [order EXCEPT ![o] = "paid"]
  /\ UNCHANGED <<stored, founding, gift, claimed, back>>

-----------------------------------------------------------------------------
(* Where the money goes. *)

\* What KHS holds for the order: nothing unless a card was charged.
Held(o) == quote[o].base

ReleaseWhatWasPaid(o) ==
  salon' = [salon EXCEPT ![o] = @ + quote[o].base - quote[o].acquisition - quote[o].commission]

\* releaseHeldPayments: the salon is credited what is left after the fees; a
\* shortfall is charged to its wallet, each fee's share as its own kind.
ReleaseHeldPayments(o) ==
  LET q == quote[o]
      net == q.base + q.discount - q.acquisition - q.commission
      acquisitionShare == RoundDiv(-net * q.acquisition, q.acquisition + q.commission)
      charged == (IF acquisitionShare > 0 THEN acquisitionShare ELSE 0)
                 + (IF -net - acquisitionShare > 0 THEN -net - acquisitionShare ELSE 0)
  IN salon' = [salon EXCEPT ![o] = IF net > 0 THEN @ + net ELSE IF net < 0 THEN @ - charged ELSE @]

Finish(o) ==
  /\ order[o] = "paid"
  /\ IF Held(o) > 0 THEN ReleaseHeldPayments(o) ELSE UNCHANGED salon
  /\ order' = [order EXCEPT ![o] = "finished"]
  /\ UNCHANGED <<stored, founding, quote, gift, claimed, back>>

\* assertRefundable, then refundPayments: less the platform's fee.
CancelEarly(o) ==
  /\ order[o] = "paid"
  /\ Held(o) > 0 => Held(o) - Settings.earlyFee > 0
  /\ back' = [back EXCEPT ![o] = Held(o) - Least(Held(o), Settings.earlyFee)]
  /\ order' = [order EXCEPT ![o] = "cancelledEarly"]
  /\ UNCHANGED <<stored, founding, quote, gift, claimed, salon>>

\* forfeitPayments: the salon keeps its share, KHS the rest.
CancelLate(o) ==
  /\ order[o] = "paid"
  /\ salon' = [salon EXCEPT ![o] = @ + RoundDiv(Held(o) * Settings.lateShare, 10000)]
  /\ order' = [order EXCEPT ![o] = "cancelledLate"]
  /\ UNCHANGED <<stored, founding, quote, gift, claimed, back>>

\* Staff save other settings, and the founding months end.
EditSettings ==
  /\ \E s \in Stored : stored' = s
  /\ founding' \in {founding, FALSE}
  /\ UNCHANGED <<order, quote, gift, claimed, salon, back>>

MoneyInit ==
  /\ stored \in Stored /\ founding \in BOOLEAN
  /\ order = [o \in Orders |-> "unpaid"]
  /\ quote = [o \in Orders |-> NoQuote]
  /\ gift = GiftValue
  /\ claimed = {}
  /\ salon = [o \in Orders |-> 0]
  /\ back = [o \in Orders |-> 0]

MoneyNext ==
  \/ EditSettings
  \/ \E o \in Orders :
       \/ StartCardPayment(o) \/ Settle(o) \/ PayWithGiftCard(o) \/ PayWithSession(o)
       \/ Finish(o) \/ CancelEarly(o) \/ CancelLate(o)

-----------------------------------------------------------------------------
(* Properties. *)

\* What KHS is left with of a card payment.
Kept(o) == Charge(quote[o]) - back[o] - salon[o]
ByCard(o) == quote[o].base > 0

\* The customer's price is all accounted for, and a finished booking pays the
\* salon, to the cent, the part of the price its customer brought by card as if
\* no discount had been given, less the fees of the day it was quoted.
SalonGetsItsDue ==
  \A o \in Orders :
    LET q == quote[o] IN
    order[o] = "finished" /\ ByCard(o) =>
      /\ q.gift + q.discount + q.base + q.balance = Price[o]
      /\ salon[o] = Price[o] - q.gift - q.balance - q.commission - q.acquisition

\* A cancelled booking's card payment is shared between the three of them:
\* nobody gets a negative part, and KHS keeps at least the processing fee.
CancelledIsShared ==
  \A o \in Orders :
    order[o] \in {"cancelledEarly", "cancelledLate"} /\ ByCard(o) =>
      back[o] >= 0 /\ salon[o] >= 0 /\ Kept(o) >= quote[o].fee

\* The salon pays the acquisition fee for this customer at most once, however
\* many bookings were quoted with it.
AcquisitionOnce ==
  \A o, p \in Orders :
    (/\ order[o] \notin {"unpaid", "quoted"} /\ quote[o].acquisition > 0
     /\ order[p] \notin {"unpaid", "quoted"} /\ quote[p].acquisition > 0) => o = p

\* launchOffers.ts: the offer is "a customer's first KHS booking".
FirstBookingOnce ==
  \A o, p \in Orders :
    (/\ order[o] = "finished" /\ quote[o].discount > 0
     /\ order[p] = "finished" /\ quote[p].discount > 0) => o = p
=============================================================================
