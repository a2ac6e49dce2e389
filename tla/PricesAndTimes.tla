---------------------------- MODULE PricesAndTimes ----------------------------
(***************************************************************************)
(* The calculations the platform rests on: what a booking costs and who    *)
(* gets it, which times a salon takes and offers, when a start is told of, *)
(* and the dates of offers and periods.  The four share no state; a        *)
(* behaviour follows one of them and the others rest.                      *)
(***************************************************************************)
EXTENDS BookingMoney, SlotRules, StartNotices, LaunchOffers

VARIABLE part  \* the one followed

pricesVars == <<moneyVars, slotVars, noticeVars, offerVars, part>>

First(S) == CHOOSE x \in S : TRUE

\* A part that rests starts in one state only.
PricesInit ==
  /\ MoneyInit /\ SlotInit /\ NoticeInit /\ OfferInit
  /\ part \in {"money", "slots", "notices", "offers"}
  /\ part # "money" => stored = First(Stored) /\ ~founding
  /\ part # "slots" => source = First(Sources) /\ hours = First(Weeks)
  /\ part # "notices" => zone = First(Zones) /\ wall = First(Walls)
  /\ part # "offers" => offer = First(Offers)

MoneyStep == part = "money" /\ MoneyNext /\ UNCHANGED <<slotVars, noticeVars, offerVars, part>>
SlotStep == part = "slots" /\ SlotNext /\ UNCHANGED <<moneyVars, noticeVars, offerVars, part>>
NoticeStep == part = "notices" /\ NoticeNext /\ UNCHANGED <<moneyVars, slotVars, offerVars, part>>
OfferStep == part = "offers" /\ OfferNext /\ UNCHANGED <<moneyVars, slotVars, noticeVars, part>>

PricesNext == MoneyStep \/ SlotStep \/ NoticeStep \/ OfferStep

PricesSpec == PricesInit /\ [][PricesNext]_pricesVars
=============================================================================
