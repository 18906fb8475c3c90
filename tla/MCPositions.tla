---------------------------- MODULE MCPositions ----------------------------
(* Small instances of Positions: a collateral and a debt reserve, amounts   *)
(* of tens, interest of a tenth a slot, and an elevation group.             *)
EXTENDS Positions

Tenth == ratio(1, 10)

Plain == [price |-> one, mintFactor |-> 1, depositLimit |-> whole(1000),
          borrowLimit |-> whole(300), outsideLimit |-> whole(300), groupLimit |-> whole(0),
          depositCap |-> [capacity |-> whole(50), interval |-> 0],
          debtCap |-> [capacity |-> zero, interval |-> 0],
          utilizationLimit |-> zero, borrowFee |-> zero, takeRate |-> zero, hostRate |-> zero,
          curve |-> <<<<zero, one>>, <<one, one>>>>, ltv |-> ratio(1, 2),
          liquidation |-> ratio(3, 4), borrowFactor |-> one, groups |-> {},
          disableOutside |-> FALSE]

MCConfig ==
  [A |-> [Plain EXCEPT !.price = whole(2), !.takeRate = ratio(1, 2), !.groups = {1},
                       !.groupLimit = whole(30),
                       !.depositCap = [capacity |-> whole(30), interval |-> 2]],
   B |-> [Plain EXCEPT !.borrowFee = Tenth, !.utilizationLimit = ratio(4, 5),
                       !.borrowLimit = whole(90), !.outsideLimit = whole(62),
                       !.debtCap = [capacity |-> whole(25), interval |-> 2],
                       !.borrowFactor = ratio(5, 4), !.groups = {1},
                       !.curve = <<<<zero, one>>, <<ratio(857, 2000), one>>, <<ratio(858, 2000), whole(2)>>,
                                   <<one, whole(2)>>>>],
   C |-> [Plain EXCEPT !.borrowLimit = whole(70), !.borrowFactor = ratio(5, 4)],
   D |-> [Plain EXCEPT !.ltv = zero, !.liquidation = zero, !.groups = {1},
                       !.groupLimit = whole(20), !.disableOutside = TRUE]]

MCGroups == [g \in {1} |-> [ltv |-> ratio(4, 5), liquidation |-> ratio(9, 10), debtReserve |-> "B"]]

reserve(a, available, lent, minted) ==
  [address |-> a, available |-> available, borrowed |-> whole(lent), protocolFees |-> zero,
   pendingFees |-> zero, minted |-> minted, rate |-> one, lastUpdate |-> 0,
   outside |-> whole(lent), inGroup |-> [g \in {1} |-> zero],
   depositDrawn |-> zero, depositSince |-> 0, debtDrawn |-> zero, debtSince |-> 0]

Lend(a) == IF a = "A" THEN [reserve("A", 60, 20, 64) EXCEPT !.inGroup = [g \in {1} |-> whole(10)]]
           ELSE IF a = "B" THEN reserve("B", 100, 50, 150)
           ELSE IF a = "C" THEN reserve("C", 40, 40, 80)
           ELSE reserve("D", 20, 30, 50)

MCMarkets == {[a \in s |-> Lend(a)] : s \in {{"A", "B"}, {"A", "C"}, {"D", "B"}}}

NoBorrows == [a \in {} |-> [amount |-> zero, rate |-> one]]
MCOwner ==
  {[deposits |-> [a \in {d} |-> 16], borrows |-> b, group |-> g] :
     d \in {"A", "D"}, b \in {NoBorrows}, g \in {0, 1}}
  \cup {[deposits |-> [a \in {"A"} |-> 16],
         borrows |-> [b \in {d} |-> [amount |-> whole(12), rate |-> one]], group |-> 0] :
           d \in {"B", "C"}}
MCReferral == zero
MCAdjust == one
MCMargin == ratio(9, 10)
=============================================================================
