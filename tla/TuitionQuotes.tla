--------------------------- MODULE TuitionQuotes ---------------------------
(* The arithmetic of a tuition quote, in whole minor units: the instalment  *)
(* of a fee schedule, the part of a period a pupil is on the roll, the      *)
(* discounts, VAT, and a pupil's share of a family's invoice                *)
(* (packages/core/src/tuition.ts, vat.ts and the functions around           *)
(* quotePupilTuition in tuition-access.ts).                                 *)
(*                                                                          *)
(* A question is put and answered by what the code computes; the properties *)
(* compare the answer with a definition of their own.                       *)
EXTENDS Integers, Sequences, FiniteSets, SequencesExt, Totals

CONSTANTS
    Amounts,        \* sums of money a question may hold
    Candidates,     \* the discounts that may be offered together
    Rates,          \* VAT rates in basis points
    Counts,         \* numbers of instalments of a plan
    Months,         \* the months of the year
    Days,           \* the lengths of periods in days
    Nothing

VARIABLES asked, answer

quoteVars == <<asked, answer>>

Modes             == {"stack", "highest", "priority"}
MidPeriodPolicies == {"full", "prorate", "manual"}

\* A discount: a percentage in basis points or a fixed amount.  `kind` and
\* `key` are the places of the names in the order of names.
Candidate ==
    [key : Nat, kind : Nat, percent : BOOLEAN, value : Nat, priority : Nat,
     group : Nat \cup {Nothing}]

ASSUME QuotesAssumption ==
    /\ Amounts \subseteq Nat /\ Counts \subseteq 1 .. 24
    /\ Months \subseteq Nat /\ Days \subseteq Nat \ {0}

ASSUME RatesAssumption ==
    /\ Rates \subseteq 0 .. 10000
    /\ Candidates \subseteq Candidate
    /\ \A c, d \in Candidates : c.key = d.key => c = d
    /\ \A c \in Candidates : c.percent => c.value <= 10000

\* The year's fee in `count` monthly instalments from the month `from`.
Plans == [annual : Amounts, count : Counts, from : Months]

\* A fee for the parts of d days, and the shares of an invoice of two amounts.
PartQuestions(d) ==
    [kind : {"parts"}, fee : Amounts, days : {d}, cut : 1 .. d - 1, policy : MidPeriodPolicies]
ShareQuestions(a, b) == [kind : {"shares"}, gross : {<<a, b>>}, paid : 0 .. a + b]

Questions ==
    [kind : {"quote"}, fee : Amounts, offered : SUBSET Candidates, mode : Modes,
     rate : Rates, inclusive : BOOLEAN]
        \cup [kind : {"year"}, plan : Plans]
        \cup [kind : {"run"}, first : Plans, second : Plans, month : Months]
        \cup (UNION {PartQuestions(d) : d \in Days})
        \cup (UNION {ShareQuestions(a, b) : a \in Amounts, b \in Amounts})

QuotesInit == asked \in Questions /\ answer = Nothing

-----------------------------------------------------------------------------
(* Discounts.                                                               *)

Least(a, b) == IF a <= b THEN a ELSE b

PercentOf(base, bps) == (base * bps) \div 10000

Calculated(fee, c) == IF c.percent THEN PercentOf(fee, c.value) ELSE Least(fee, c.value)

\* candidateSort.
Before(c, d) ==
    \/ c.priority < d.priority
    \/ c.priority = d.priority /\ c.kind < d.kind
    \/ c.priority = d.priority /\ c.kind = d.kind /\ c.key < d.key

\* The largest discount, the first of equals.
HighestOnly(fee, sorted) ==
    LET larger(best, c) ==
            IF best = Nothing \/ Calculated(fee, c) > Calculated(fee, best) THEN c ELSE best
        best == FoldLeft(larger, Nothing, sorted)
    IN  IF best = Nothing \/ Calculated(fee, best) = 0 THEN <<>> ELSE <<best>>

\* Mutant: a discount that comes to nothing uses up its group.
GroupsUsedByNothing(fee, sorted) ==
    LET take(s, c) ==
            IF c.group # Nothing /\ c.group \in s.used THEN s
            ELSE [used |-> s.used \cup {c.group},
                  chosen |-> IF Calculated(fee, c) = 0 THEN s.chosen ELSE Append(s.chosen, c)]
    IN  FoldLeft(take, [used |-> {}, chosen |-> <<>>], sorted).chosen

\* In order of priority, one of each exclusive group.
OnePerGroup(fee, sorted) ==
    LET take(s, c) ==
            IF (c.group # Nothing /\ c.group \in s.used) \/ Calculated(fee, c) = 0 THEN s
            ELSE [used |-> s.used \cup {c.group}, chosen |-> Append(s.chosen, c)]
    IN  FoldLeft(take, [used |-> {}, chosen |-> <<>>], sorted).chosen

Selected(fee, offered, mode) ==
    LET sorted == SetToSortSeq(offered, Before)
        counts(c) == Calculated(fee, c) > 0
    IN  CASE mode = "highest" -> HighestOnly(fee, sorted)
          [] mode = "priority" -> OnePerGroup(fee, sorted)
          [] mode = "stack" -> SelectSeq(sorted, counts)

\* The amounts of the selected discounts, each cut to what is left of the fee.
Taken(fee, selected) ==
    LET take(s, c) ==
            LET amount == Least(Calculated(fee, c), s.left)
            IN  IF amount = 0 THEN s
                ELSE [left |-> s.left - amount, amounts |-> Append(s.amounts, amount)]
    IN  FoldLeft(take, [left |-> fee, amounts |-> <<>>], selected).amounts

SumOf(amounts) == FoldLeft(+, 0, amounts)

-----------------------------------------------------------------------------
(* VAT.                                                                     *)

\* roundHalfAwayFromZeroDiv, for a positive divisor.
RoundHalfAway(n, d) ==
    IF n >= 0 THEN (n + d \div 2) \div d ELSE -((-n + d \div 2) \div d)

\* splitVatAmount: net and VAT of an amount, which may be negative.
SplitVat(entered, rate, inclusive) ==
    LET vat == IF inclusive THEN RoundHalfAway(entered * rate, 10000 + rate)
               ELSE RoundHalfAway(entered * rate, 10000)
    IN  [net |-> IF inclusive THEN entered - vat ELSE entered, vat |-> vat]

\* vatForQuotedTuition: the fee and each discount are split by themselves.
VatOfQuote(fee, amounts, rate, inclusive) ==
    LET lines == <<SplitVat(fee, rate, inclusive)>>
                    \o [i \in DOMAIN amounts |-> SplitVat(-amounts[i], rate, inclusive)]
    IN  [net |-> SumOf([i \in DOMAIN lines |-> lines[i].net]),
         vat |-> SumOf([i \in DOMAIN lines |-> lines[i].vat])]

AnswerQuote ==
    /\ answer = Nothing /\ asked.kind = "quote"
    /\ LET amounts == Taken(asked.fee, Selected(asked.fee, asked.offered, asked.mode))
       IN  answer' = [amounts |-> amounts,
                      total |-> VatOfQuote(asked.fee, amounts, asked.rate, asked.inclusive)]
    /\ UNCHANGED asked

-----------------------------------------------------------------------------
(* Instalments.                                                             *)

\* splitAnnualIntoInstalments at the instalment n, and the amount of the
\* schedule, a regular instalment, for an instalment the plan does not have.
Instalment(plan, n) ==
    LET base == plan.annual \div plan.count
    IN  IF n = plan.count THEN plan.annual - base * (plan.count - 1) ELSE base

\* deriveInstalmentNumber for a monthly plan, 1 for a month it does not cover
\* (resolveQuoteInstalmentNumber).
InstalmentNumber(plan, month) ==
    LET index == month - plan.from + 1
    IN  IF index \in 1 .. plan.count THEN index ELSE 1

\* Each month the plan covers, quoted.
AnswerYear ==
    /\ answer = Nothing /\ asked.kind = "year"
    /\ answer' = [i \in 1 .. asked.plan.count |->
                     Instalment(asked.plan,
                                InstalmentNumber(asked.plan, asked.plan.from + i - 1))]
    /\ UNCHANGED asked

\* A general run with a pupil on each of two plans: the amounts the preview
\* stores, and those the check for a stale preview quotes again.  The preview
\* numbers the instalment of each plan by itself and saves the number of the
\* first; the check uses the saved number for all.
AnswerRun ==
    /\ answer = Nothing /\ asked.kind = "run"
    /\ LET n == InstalmentNumber(asked.first, asked.month)
       IN  answer' =
             [items |-> <<Instalment(asked.first, n),
                          Instalment(asked.second, InstalmentNumber(asked.second, asked.month))>>,
              fresh |-> <<Instalment(asked.first, n), Instalment(asked.second, n)>>]
    /\ UNCHANGED asked

-----------------------------------------------------------------------------
(* A part of a period, and a part of an invoice.                            *)

\* Mutant: a part of a period is rounded up.
ProrateUp(amount, days, periodDays) == (amount * days + periodDays - 1) \div periodDays

Prorate(amount, days, periodDays) == (amount * days) \div periodDays

\* applyMidPeriodPolicy for a pupil on the roll for some of the days.
PartOfPeriod(fee, policy, days, periodDays) ==
    CASE days >= periodDays -> fee
      [] days < periodDays /\ policy = "manual" -> 0
      [] days < periodDays /\ policy = "prorate" -> Prorate(fee, days, periodDays)
      [] days < periodDays /\ policy = "full" -> fee

\* One pupil leaves after the day `cut`, another joins on the next.
AnswerParts ==
    /\ answer = Nothing /\ asked.kind = "parts"
    /\ answer' = <<PartOfPeriod(asked.fee, asked.policy, asked.cut, asked.days),
                   PartOfPeriod(asked.fee, asked.policy, asked.days - asked.cut, asked.days)>>
    /\ UNCHANGED asked

\* allocateShareMinor, and the same sum in the query of listStudentFees.
Share(total, share, of) ==
    IF total = 0 \/ share = 0 \/ of = 0 THEN 0 ELSE (total * share) \div of

\* What two pupils on an invoice are shown as paid and as outstanding.
AnswerShares ==
    /\ answer = Nothing /\ asked.kind = "shares"
    /\ LET of == Total(asked.gross)
       IN  answer' = [i \in 1 .. 2 |->
                         [paid |-> Share(asked.paid, asked.gross[i], of),
                          outstanding |-> Share(of - asked.paid, asked.gross[i], of)]]
    /\ UNCHANGED asked

-----------------------------------------------------------------------------

QuotesNext == AnswerQuote \/ AnswerYear \/ AnswerRun \/ AnswerParts \/ AnswerShares

QuotesSpec == QuotesInit /\ [][QuotesNext]_quoteVars

-----------------------------------------------------------------------------
(* Properties.                                                              *)

Answered(kind) == answer # Nothing /\ asked.kind = kind

\* What the discounts come to when they are added by the rules of the mode,
\* before the cut to the fee: all of them, the largest, or of each exclusive
\* group the first that is worth something.
ByTheRules(fee, offered, mode) ==
    LET value(c) == Calculated(fee, c)
        isFirst(c) ==
            \/ c.group = Nothing
            \/ \A d \in offered : d.group = c.group /\ value(d) > 0 => ~Before(d, c)
        counted == CASE mode = "stack" -> offered
                     [] mode = "highest" -> {c \in offered : \A d \in offered :
                            value(d) < value(c) \/ (value(d) = value(c) /\ ~Before(d, c))}
                     [] mode = "priority" -> {c \in offered : isFirst(c)}
    IN  MapThenSumSet(value, counted)

\* The discounts of a quote come to what the stacking mode of the school
\* allows and never to more than the fee, and no line of the invoice is a
\* discount of nothing (applyDiscounts, whose loops sort, select and cut).
DiscountsByTheRules ==
    Answered("quote") =>
        /\ SumOf(answer.amounts) = Least(asked.fee, ByTheRules(asked.fee, asked.offered, asked.mode))
        /\ \A i \in DOMAIN answer.amounts : answer.amounts[i] > 0

\* Rounding VAT line by line, discounts as negative lines, ends within half a
\* unit for each line of the VAT on the discounted fee, and what is charged
\* before VAT, or with it where prices include it, is that fee exactly.
VatFollowsTheFee ==
    Answered("quote") =>
        LET due    == asked.fee - SumOf(answer.amounts)
            lines  == 1 + Len(answer.amounts)
            gross  == answer.total.net + answer.total.vat
            base   == IF asked.inclusive THEN 10000 + asked.rate ELSE 10000
        IN  /\ 2 * (answer.total.vat * base - due * asked.rate) \in -(lines * base) .. lines * base
            /\ asked.inclusive => gross = due
            /\ ~asked.inclusive => answer.total.net = due

\* The instalments of the months a plan covers come to the fee of the year.
InstalmentsMakeTheYear == Answered("year") => Total(answer) = asked.plan.annual

\* Two pupils who share a place over a period pay one fee between them when
\* fees are prorated, short of it by a unit at most.
PartsMakeThePeriod ==
    Answered("parts") /\ asked.policy = "prorate" =>
        Total(answer) \in asked.fee - 1 .. asked.fee

\* The shares pupils are shown of a family's invoice never exceed what was
\* paid and what is outstanding, lose less than a unit for each pupil, and
\* come for each pupil to no more than the pupil's own lines.
SharesFitTheInvoice ==
    Answered("shares") =>
        LET paid == answer[1].paid + answer[2].paid
            left == answer[1].outstanding + answer[2].outstanding
            of   == Total(asked.gross)
        IN  /\ paid \in asked.paid - 1 .. asked.paid
            /\ left \in of - asked.paid - 1 .. of - asked.paid
            /\ \A i \in 1 .. 2 : answer[i].paid + answer[i].outstanding <= asked.gross[i]

\* "A preview is stale only when a fresh quote of the same period would issue
\* different invoices than the stored preview" (tuition.ts): nothing changes
\* here between the preview and the check.
PreviewStaysFresh == Answered("run") => answer.fresh = answer.items

\* The discounts and the VAT of a quote follow their rules.
QuotesByTheRules == DiscountsByTheRules /\ VatFollowsTheFee

\* Instalments, prorated parts and shares make up what they are parts of.
PartsMakeTheWhole == InstalmentsMakeTheYear /\ PartsMakeThePeriod /\ SharesFitTheInvoice
=============================================================================
