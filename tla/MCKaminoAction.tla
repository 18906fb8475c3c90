---------------------------- MODULE MCKaminoAction ----------------------------
(***************************************************************************)
(* Instances of KaminoActionSend: three reserves, Sol the one of SOL, two  *)
(* elevation groups with debt reserve Sol, and families of requests and    *)
(* of chain states, one per question.                                      *)
(***************************************************************************)
EXTENDS KaminoActionSend, TLC

CONSTANTS ResA, ResB, Sol

ThreeReserves == {ResA, ResB, Sol}
TwoGroups == {1, 2}
CollFarms == {ResA, Sol}
DebtFarms == {ResA, ResB}
InGroups == (ResA :> {1, 2}) @@ (ResB :> {1}) @@ (Sol :> {1, 2})
DebtIsSol == (1 :> Sol) @@ (2 :> Sol)
Ltvs == (1 :> 80) @@ (2 :> 90)

\* How far the user's accounts are set up: fully, not at all, without the
\* WSOL account, without farms and referral state, or with SOL alone.
Fresh == [metadata |-> FALSE, referrer |-> FALSE, tokenStates |-> {}, atas |-> {},
          colAtas |-> {}, farms |-> {}]
Ready == [metadata |-> TRUE, referrer |-> TRUE, tokenStates |-> ThreeReserves,
          atas |-> ThreeReserves, colAtas |-> ThreeReserves,
          farms |-> ThreeReserves \X Mode]
NoSol == [Ready EXCEPT !.atas = {ResA, ResB}, !.colAtas = {ResA}]
NoFarms == [Ready EXCEPT !.farms = {}, !.tokenStates = {}]
OnlySol == [Ready EXCEPT !.atas = {Sol}, !.colAtas = {}, !.farms = {<<ResA, "coll">>}]

OnChain(account, obligation, D, L, g, slot0) ==
  [obligation |-> obligation, deposits |-> D, borrows |-> L, group |-> g, slot0 |-> slot0]
  @@ account

WithoutObligation == {OnChain(acc, FALSE, {}, {}, 0, FALSE) : acc \in {Fresh, Ready, NoSol}}

\* A deposit and a borrow of one obligation never share a reserve.
Ungrouped(accounts, max) ==
  UNION {{OnChain(acc, TRUE, p[1], p[2], 0, p[1] # {}) : acc \in accounts} :
           p \in {p \in (SUBSET ThreeReserves) \X (SUBSET ThreeReserves) :
                    /\ p[1] \intersect p[2] = {}
                    /\ Cardinality(p[1] \union p[2]) <= max
                    /\ p[2] # {} => p[1] # {}}}

\* Inside a group every deposit is of the group, the only debt its debt reserve.
Grouped(accounts) ==
  UNION {{OnChain(acc, TRUE, D, L, g, D # {}) : acc \in accounts, L \in {{}, {Sol}}} :
           <<g, D>> \in {<<1, {ResA}>>, <<1, {ResA, ResB}>>, <<2, {ResA}>>}}

Base == [action |-> "deposit", reserve |-> ResA, outflow |-> NoReserve, level |-> 0,
         emptied |-> FALSE, closing |-> FALSE, budget |-> TRUE, scope |-> TRUE,
         ata |-> TRUE, elevate |-> FALSE, override |-> NoOverride, metadata |-> TRUE,
         referrer |-> FALSE]

\* Every single action, outside elevation groups.
SingleRequests ==
  {[Base EXCEPT !.action = a, !.reserve = r, !.ata = t, !.metadata = t, !.scope = ~t] :
     a \in {"deposit", "borrow", "mint", "redeem", "depositCollateral",
            "withdrawReferrerFees"}, r \in {ResA, Sol}, t \in BOOLEAN}
  \union {[Base EXCEPT !.action = "withdraw", !.reserve = r, !.ata = t, !.emptied = e] :
            r \in {ResA, Sol}, t \in BOOLEAN, e \in BOOLEAN}
  \union {[Base EXCEPT !.action = "repay", !.reserve = r, !.ata = t, !.level = l] :
            r \in {ResA, Sol}, t \in BOOLEAN, l \in {0, 3}}
  \union {[Base EXCEPT !.action = "liquidate", !.reserve = p[1], !.outflow = p[2],
                       !.ata = t, !.level = l, !.emptied = (l = 3)] :
            p \in {<<ResA, ResB>>, <<ResA, Sol>>, <<Sol, ResA>>}, t \in BOOLEAN, l \in {0, 3}}
  \union {[Base EXCEPT !.reserve = r, !.referrer = TRUE, !.budget = FALSE] : r \in {ResA, Sol}}

ActionChains == WithoutObligation \union Ungrouped({Ready, NoSol, NoFarms, OnlySol}, 3)

\* The two-token actions, outside elevation groups.
TwoTokenRequests ==
  {[Base EXCEPT !.action = "depositAndBorrow", !.reserve = p[1], !.outflow = p[2],
                !.ata = t, !.metadata = t] :
     p \in {<<ResA, ResB>>, <<ResA, Sol>>, <<Sol, ResA>>}, t \in BOOLEAN}
  \union {[Base EXCEPT !.action = "repayAndWithdraw", !.reserve = p[1], !.outflow = p[2],
                       !.ata = t, !.level = l, !.emptied = e, !.closing = c] :
            p \in {<<ResA, ResB>>, <<ResA, Sol>>, <<Sol, ResA>>}, t \in BOOLEAN, l \in {0, 2, 3},
            e \in BOOLEAN, c \in BOOLEAN}

ActionRequests == SingleRequests \union TwoTokenRequests

\* Requests that ask for an elevation group or may have to, and the
\* obligation-only requests.
GroupRequests ==
  {[Base EXCEPT !.action = a, !.reserve = r, !.elevate = TRUE, !.override = g] :
     a \in {"deposit", "borrow"}, r \in {ResA, Sol}, g \in {NoOverride, 0, 1, 2}}
  \union {[Base EXCEPT !.action = "repay", !.reserve = Sol, !.elevate = TRUE, !.level = l] :
            l \in 0..3}
  \union {[Base EXCEPT !.action = "depositAndBorrow", !.reserve = r, !.outflow = Sol,
                       !.elevate = TRUE] : r \in {ResA, ResB}}
  \union {[Base EXCEPT !.action = "repayAndWithdraw", !.reserve = Sol, !.outflow = ResA,
                       !.elevate = e, !.level = l, !.emptied = m, !.closing = c] :
            e \in BOOLEAN, l \in 0..3, m \in BOOLEAN, c \in BOOLEAN}
  \union {[Base EXCEPT !.action = "requestElevationGroup", !.override = g, !.budget = FALSE] :
            g \in {0, 1, 2}}
  \union {[Base EXCEPT !.action = "refreshObligation", !.budget = b] : b \in BOOLEAN}
  \union {[Base EXCEPT !.action = a, !.reserve = r] :
            a \in {"borrow", "withdraw", "repay"}, r \in {ResA, Sol}}
  \union {[Base EXCEPT !.action = "liquidate", !.reserve = Sol, !.outflow = ResA]}

GroupChains ==
  Grouped({Ready, NoSol, NoFarms}) \union Ungrouped({Ready}, 3)
  \union {OnChain(Ready, TRUE, D, {}, 0, FALSE) : D \in {{ResA}, {ResA, ResB}}}
  \union {OnChain(Fresh, FALSE, {}, {}, 0, FALSE)}

===============================================================================
