-------------------------------- MODULE Pricing --------------------------------
(***************************************************************************)
(* What a request costs, from the counters its provider reported           *)
(* (telemetry/usage.ts, billing/calculate.ts, image-usage.ts,              *)
(* cache-usage.ts and the end of RequestMeter.finish).                     *)
(*                                                                         *)
(* A report discloses some of the counters of a response, in the form of   *)
(* one of the two protocols.  They are normalised, and the normalised      *)
(* counters are charged by the rates of a price tier.  A rate that is not  *)
(* set is inherited; a counter that is not known leaves a charge unknown.  *)
(*                                                                         *)
(* Against this stands what was used: the tokens of each kind, each of     *)
(* which has one rate.  Amounts are integers; the largest is MaxSafe.      *)
(***************************************************************************)
EXTENDS Integers, Sequences, FiniteSets, FiniteSetsExt

CONSTANTS
    MaxSafe,     \* Number.MAX_SAFE_INTEGER
    PricedRequests     \* the requests that are priced: protocol, endpoint, tiers, attempts

Unknown == -1    \* null
Absent == -2     \* a counter the provider did not send
Overflow == -3   \* beyond MaxSafe, or not an amount: the calculation throws

Groups == [openai |-> {"m30", "h12"}, anthropic |-> {"m5", "h1"}]
Durations == Groups.openai \cup Groups.anthropic
ImageFields == {"imageInput", "imageOutput", "imageRead", "imageWrite"}
Detailed == ImageFields \cup Durations
Fields == {"input", "output", "uncached", "read", "write", "reasoning"} \cup Detailed

Wire == (Fields \ {"uncached"}) \cup {"textRead", "textWrite"}

Sum(f(_), S) == MapThenSumSet(f, S)
Count(v) == IF v >= 0 THEN v ELSE Unknown
Known(v) == v >= 0
AllKnown(t, fields) == \A f \in fields : Known(t[f])
Safe(n) == IF n > MaxSafe THEN Overflow ELSE n
Sent(r, f) == r[f] # Absent
Or(v, other) == IF v = Unknown THEN other ELSE v

-----------------------------------------------------------------------------
(* UsageAccumulator.snapshot: the counters of a report.  A counter that was  *)
(* sent but is not a count is -1 in the report.                              *)

Reported(r) == [f \in Fields |-> IF f = "uncached" THEN Unknown ELSE Count(r[f])]

\* A cache counter that was not sent is the sum of its image and text parts.
FromParts(r, total, image, text) ==
    IF ~Sent(r, total) /\ Known(r[image]) /\ Known(r[text]) THEN r[image] + r[text]
    ELSE Count(r[total])

DurationSum(t, group) == Sum(LAMBDA d : t[d], group)

\* A write total that was not sent is the sum of its durations.
FromDurations(t, r, group, write) ==
    IF ~Sent(r, "write") /\ AllKnown(t, group) THEN DurationSum(t, group) ELSE write

\* The tier of a context size: the first that reaches so far.
TierFor(input, tiers) ==
    {tiers[i] : i \in {i \in DOMAIN tiers :
        /\ tiers[i].upTo = Unknown \/ input <= tiers[i].upTo
        /\ \A j \in 1..(i - 1) : input > tiers[j].upTo}}

\* Providers that charge nothing for cache writes may not count them.
FreeWrites(tier) ==
    /\ tier.write = 0
    /\ Or(tier.imageWrite, tier.write) = 0
    /\ \A d \in Durations : Or(tier[d], tier.write) = 0

InputDetails(r) ==
    \E f \in ({"read", "write", "textRead", "textWrite"} \cup Detailed) \ {"imageOutput"} : Sent(r, f)
WriteDetails(r) == \E f \in {"imageWrite", "textWrite", "m30", "h12"} : Sent(r, f)

WriteOf(t, r, tiers, group, parts) ==
    IF Known(t.input) /\ Known(t.read) /\ InputDetails(r) /\ ~Sent(r, "write") /\ ~WriteDetails(r)
       /\ \E tier \in TierFor(t.input, tiers) : FreeWrites(tier)
    THEN 0 ELSE FromDurations(t, r, group, parts)

Openai(t, r, tiers) ==
    LET read == FromParts(r, "read", "imageRead", "textRead")
        parts == FromParts(r, "write", "imageWrite", "textWrite")
        write == WriteOf([t EXCEPT !.read = read], r, tiers, Groups.openai, parts)
        rest == IF Known(t.input) /\ Known(read) /\ Known(write) THEN t.input - read - write ELSE Unknown
    IN  [tokens |-> [t EXCEPT !.read = read, !.write = write,
                              !.uncached = IF rest < 0 THEN Unknown ELSE rest],
         invalid |-> \/ Known(t.input) /\ Known(read) /\ Known(write) /\ t.input < read + write
                     \/ \E d \in Groups.openai : r[d] = Unknown
                     \/ ~Sent(r, "write") /\ AllKnown(t, Groups.openai)
                        /\ Known(parts) /\ parts # DurationSum(t, Groups.openai)]

Anthropic(t, r) ==
    LET write == FromDurations(t, r, Groups.anthropic, t.write)
        all == Known(t.input) /\ Known(t.read) /\ Known(write)
    IN  [tokens |-> [t EXCEPT !.uncached = t.input, !.write = write,
                              !.input = IF all THEN t.input + t.read + write ELSE Unknown],
         invalid |-> \E d \in Groups.anthropic : r[d] = Unknown]

\* An image counter that was not sent is known where its total is nothing.
ImageCounter(t, r, image, total) ==
    IF Sent(r, image) THEN Count(r[image]) ELSE IF t[total] = 0 THEN 0 ELSE Unknown

\* An answer of the image endpoints is made of images.
OutputImages(t, r, endpoint) ==
    IF endpoint = "images" /\ ~Sent(r, "imageOutput") THEN t.output
    ELSE ImageCounter(t, r, "imageOutput", "output")

\* No image was read from a cache or written to one where there was no image.
CachedCounter(t, r, image, total) ==
    IF ~Sent(r, image) /\ ImageCounter(t, r, "imageInput", "input") = 0 THEN 0
    ELSE ImageCounter(t, r, image, total)

WithImages(t, r, endpoint) ==
    [f \in Fields |->
        CASE f = "imageInput" -> ImageCounter(t, r, "imageInput", "input")
          [] f = "imageRead" -> CachedCounter(t, r, "imageRead", "read")
          [] f = "imageWrite" -> CachedCounter(t, r, "imageWrite", "write")
          [] f = "imageOutput" -> OutputImages(t, r, endpoint)
          [] OTHER -> t[f]]

TextDisagrees(t, r, text, total, image) ==
    /\ Sent(r, text)
    /\ \/ ~Known(r[text])
       \/ Known(t[total]) /\ r[text] > t[total]
       \/ Known(t[total]) /\ Known(t[image]) /\ r[text] # t[total] - t[image]

Above(t, child, parent) == Known(t[child]) /\ Known(t[parent]) /\ t[child] > t[parent]

\* Images and caches overlap; their union fits into the input.
ValidImages(t) ==
    /\ ~Above(t, "imageInput", "input") /\ ~Above(t, "imageOutput", "output")
    /\ ~Above(t, "imageRead", "imageInput") /\ ~Above(t, "imageRead", "read")
    /\ ~Above(t, "imageWrite", "imageInput") /\ ~Above(t, "imageWrite", "write")
    /\ AllKnown(t, {"imageInput", "imageRead", "imageWrite"})
         => t.imageRead <= t.imageInput - t.imageWrite
    /\ AllKnown(t, {"imageInput", "input"}) =>
         /\ AllKnown(t, {"imageRead", "read"}) => t.imageInput - t.imageRead <= t.input - t.read
         /\ AllKnown(t, {"imageWrite", "write"}) => t.imageInput - t.imageWrite <= t.input - t.write
         /\ AllKnown(t, {"imageRead", "imageWrite", "read", "write"}) =>
              t.imageInput - t.imageRead - t.imageWrite <= t.input - t.read - t.write

Observed(t) == {g \in DOMAIN Groups : \E d \in Groups[g] : Known(t[d])}

ValidWrites(t) ==
    /\ Cardinality(Observed(t)) <= 1
    /\ \A g \in Observed(t) :
         LET sum == DurationSum(t, {d \in Groups[g] : Known(t[d])})
         IN  Known(t.write) => sum <= t.write /\ (AllKnown(t, Groups[g]) => sum = t.write)

Complete == {"input", "output", "uncached", "read", "write"}

Checked(n, t, r) ==
    LET excess == Above(t, "reasoning", "output")
        tokens == IF excess THEN [t EXCEPT !.reasoning = Unknown] ELSE t
        invalid == \/ n.invalid \/ excess \/ ~ValidImages(t) \/ ~ValidWrites(t)
                   \/ \E f \in ImageFields : r[f] = Unknown
                   \/ TextDisagrees(t, r, "textRead", "read", "imageRead")
                   \/ TextDisagrees(t, r, "textWrite", "write", "imageWrite")
    IN  [tokens |-> tokens,
         status |-> IF invalid THEN "invalid"
                    ELSE IF AllKnown(tokens, Complete) THEN "reported" ELSE "partial"]

Normalised(n, r, endpoint) == Checked(n, WithImages(n.tokens, r, endpoint), r)

Missing == [tokens |-> [f \in Fields |-> Unknown], status |-> "missing"]

UsageSnapshot(r, protocol, endpoint, tiers) ==
    IF \A f \in DOMAIN r : ~Sent(r, f) THEN Missing
    ELSE Normalised(IF protocol = "openai" THEN Openai(Reported(r), r, tiers)
                    ELSE Anthropic(Reported(r), r), r, endpoint)

-----------------------------------------------------------------------------
(* calculateCost: the charges of one usage by one tier. *)

\* Rounded half up, once for a charge.
TokenCost(tokens, rate) ==
    IF tokens < 0 THEN tokens ELSE Safe((tokens * rate + 500) \div 1000)

SplitCost(total, image, rate, imageRate) ==
    LET images == IF total = 0 /\ image = Unknown THEN 0 ELSE image
    IN  IF imageRate = Unknown THEN [standard |-> TokenCost(total, rate), image |-> 0]
        ELSE IF Known(total) /\ images > total THEN [standard |-> Overflow, image |-> Overflow]
        ELSE [standard |-> IF Known(total) /\ Known(images) THEN TokenCost(total - images, rate)
                           ELSE Unknown,
              image |-> TokenCost(images, imageRate)]

UncachedImagesWithWrites(t) ==
    IF t.imageInput = Unknown \/ t.imageRead = Unknown THEN Unknown ELSE t.imageInput - t.imageRead

\* Every token of the image input is in a cache read, a cache write or neither.
UncachedImages(t) ==
    LET read == IF t.imageRead = Unknown /\ t.read = 0 THEN 0 ELSE t.imageRead
        write == IF t.imageWrite = Unknown /\ t.write = 0 THEN 0 ELSE t.imageWrite
    IN  CASE t.imageInput = 0 \/ t.uncached = 0 -> 0
          [] t.imageInput = Unknown -> Unknown
          [] t.imageInput \in {read, write} -> 0
          [] ~Known(read) \/ ~Known(write) -> Unknown
          [] OTHER -> t.imageInput - read - write

\* The durations that are charged one by one, where the tier tells them apart.
ChargedDurations(t, tier) ==
    LET durations == IF Observed(t) = {} THEN Durations
                     ELSE Groups[CHOOSE g \in Observed(t) : TRUE]
    IN  IF \A d \in durations : tier[d] = Unknown THEN {} ELSE durations

RateOf(d, tier) == Or(tier[d], tier.write)

ByDuration(t, tier, durations) ==
    IF ~AllKnown(t, durations) THEN Unknown
    ELSE LET over == {d \in durations : TokenCost(t[d], RateOf(d, tier)) = Overflow}
         IN  IF over # {} THEN Overflow
             ELSE Sum(LAMBDA d : TokenCost(t[d], RateOf(d, tier)), durations)

OrdinaryWrites(t, tier, durations) ==
    IF t.write = 0 THEN 0
    ELSE IF durations = {} THEN TokenCost(t.write, tier.write)
    ELSE IF t.write = Unknown THEN Unknown ELSE ByDuration(t, tier, durations)

\* The one rate of the written text: one rate for all, or one duration only.
TextRate(t, tier, durations) ==
    LET rates == {RateOf(d, tier) : d \in durations}
        used == {d \in durations : t[d] # 0}
    IN  IF durations = {} THEN tier.write
        ELSE IF Cardinality(rates) = 1 THEN CHOOSE r \in rates : TRUE
        ELSE IF Known(t.write) /\ AllKnown(t, durations) /\ Cardinality(used) = 1
             THEN RateOf(CHOOSE d \in used : TRUE, tier)
        ELSE Unknown

WriteCost(t, tier, durations, image) ==
    IF tier.imageWrite = Unknown \/ image = 0
    THEN [standard |-> OrdinaryWrites(t, tier, durations), image |-> 0]
    ELSE IF Known(t.write) /\ image = t.write
    THEN [standard |-> 0, image |-> TokenCost(image, tier.imageWrite)]
    ELSE IF TextRate(t, tier, durations) = Unknown
    THEN [standard |-> Unknown, image |-> TokenCost(image, tier.imageWrite)]
    ELSE SplitCost(t.write, image, TextRate(t, tier, durations), tier.imageWrite)

CachedImages(t, image, total) ==
    IF t[image] = Unknown /\ (t.imageInput = 0 \/ (image = "imageWrite" /\ t[total] = 0))
    THEN 0 ELSE t[image]

Charges(t, tier) ==
    [input |-> SplitCost(t.uncached, UncachedImages(t), tier.input, tier.imageInput),
     output |-> SplitCost(t.output, t.imageOutput, tier.output, tier.imageOutput),
     read |-> SplitCost(t.read, CachedImages(t, "imageRead", "read"), tier.read, tier.imageRead),
     write |-> WriteCost(t, tier, ChargedDurations(t, tier), CachedImages(t, "imageWrite", "write"))]

Kinds == {"input", "output", "read", "write"}
ImageRate == [input |-> "imageInput", output |-> "imageOutput", read |-> "imageRead",
              write |-> "imageWrite"]

\* The charges of a bill: an image charge counts where images have a rate.
PartsOf(tier) ==
    (Kinds \X {"standard"}) \cup ({k \in Kinds : tier[ImageRate[k]] # Unknown} \X {"image"})

NoCost(status) == [status |-> status, total |-> Unknown]
Throw == NoCost("throw")

Billed(charges, parts) ==
    LET amount(p) == charges[p[1]][p[2]]
        known == {p \in parts : Known(amount(p))}
        total == Sum(amount, known)
    IN  IF total > MaxSafe \/ \E p \in Kinds \X {"standard", "image"} : amount(p) = Overflow
        THEN Throw
        ELSE [status |-> IF known = parts THEN "complete"
                         ELSE IF known # {} THEN "partial" ELSE "unknown",
              total |-> IF known = {} THEN Unknown ELSE total]

Cost(t, tiers) ==
    IF ~ValidImages(t) \/ ~ValidWrites(t) THEN Throw
    ELSE IF tiers = <<>> THEN NoCost("unpriced")
    ELSE IF t.input = Unknown THEN NoCost("unknown")
    ELSE LET tier == CHOOSE tier \in TierFor(t.input, tiers) : TRUE
         IN  Billed(Charges(t, tier), PartsOf(tier))

Charged(u, tiers) == IF u.status = "invalid" THEN NoCost("unknown") ELSE Cost(u.tokens, tiers)

-----------------------------------------------------------------------------
(* RequestMeter.finish: the bill of a request is that of its last attempt    *)
(* and of the ones before it.  An answer that was not read tells nothing.    *)

NoReport == [f \in Wire |-> Absent]

Usages(r) ==
    [i \in DOMAIN r.attempts |->
        UsageSnapshot(r.attempts[i].report, r.protocol, r.endpoint, r.tiers)]

\* A detail is unknown where one attempt does not tell it; a total adds up what is known.
TokenTotal(usages, f) ==
    LET known == {i \in DOMAIN usages : Known(usages[i].tokens[f])}
    IN  IF known = {} \/ (f \in Detailed /\ known # DOMAIN usages) THEN Unknown
        ELSE Safe(Sum(LAMBDA i : usages[i].tokens[f], known))

UsageStatus(usages, n) ==
    CASE \E i \in 1..n : usages[i].status = "invalid" -> "invalid"
      [] \E i \in 1..(n - 1) : usages[i].status # "reported" -> "partial"
      [] OTHER -> usages[n].status

\* A bill that is unknown or partial stays what it is.
BillStatus(costs, n) ==
    IF costs[n].status = "complete" /\ \E i \in 1..n : costs[i].status # "complete"
    THEN "partial" ELSE costs[n].status

CostTotal(costs) ==
    LET known == {i \in DOMAIN costs : Known(costs[i].total)}
    IN  IF known = {} THEN Unknown ELSE Safe(Sum(LAMBDA i : costs[i].total, known))

Summed(usages, costs, n) ==
    LET tokens == [f \in Fields |-> TokenTotal(usages, f)]
        status == UsageStatus(usages, n)
        failed == \/ \E i \in 1..n : costs[i] = Throw
                  \/ Overflow \in {tokens[f] : f \in Fields} \cup {CostTotal(costs)}
    IN  [tokens |-> tokens,
         status |-> IF failed /\ status = "reported" THEN "partial" ELSE status,
         billing |-> IF failed THEN NoCost("unknown")
                     ELSE [status |-> BillStatus(costs, n), total |-> CostTotal(costs)]]

BillOf(usages, r) ==
    Summed(usages, [i \in DOMAIN usages |-> Charged(usages[i], r.tiers)], Len(r.attempts))

Bill(r) == BillOf(Usages(r), r)

-----------------------------------------------------------------------------
(* A request is priced once. *)

VARIABLES
    priced,    \* the request
    bill       \* its bill, or Unpriced

pricingVars == <<priced, bill>>
Unpriced == [status |-> "open"]

PricingInit == priced \in PricedRequests /\ bill = Unpriced
Price == bill = Unpriced /\ bill' = Bill(priced) /\ UNCHANGED priced
PricingSpec == PricingInit /\ [][Price]_pricingVars

-----------------------------------------------------------------------------
(* What was used: the tokens of every kind, of which each has one rate. *)

Uses == {"uncached", "read", "out"} \cup Durations
Cells == {"text", "image"} \X Uses

Rate(tier, c) ==
    LET field == CASE c[2] = "uncached" -> "input" [] c[2] = "read" -> "read"
                   [] c[2] = "out" -> "output" [] OTHER -> "write"
        text == IF field = "write" THEN RateOf(c[2], tier) ELSE tier[field]
    IN  IF c[1] = "text" THEN text ELSE Or(tier[ImageRate[field]], text)

Used(used, cells) == Sum(LAMBDA c : used[c], cells)
Of(kinds, uses) == kinds \X uses
Both == {"text", "image"}
Inputs == Uses \ {"out"}

Truth(used) ==
    [input |-> Used(used, Of(Both, Inputs)), output |-> Used(used, Of(Both, {"out"})),
     uncached |-> Used(used, Of(Both, {"uncached"})), read |-> Used(used, Of(Both, {"read"})),
     write |-> Used(used, Of(Both, Durations)), reasoning |-> 0,
     imageInput |-> Used(used, Of({"image"}, Inputs)),
     imageOutput |-> Used(used, Of({"image"}, {"out"})),
     imageRead |-> Used(used, Of({"image"}, {"read"})),
     imageWrite |-> Used(used, Of({"image"}, Durations)),
     m5 |-> Used(used, Of(Both, {"m5"})), h1 |-> Used(used, Of(Both, {"h1"})),
     m30 |-> Used(used, Of(Both, {"m30"})), h12 |-> Used(used, Of(Both, {"h12"}))]

Exact(used, tiers) ==
    LET tier == CHOOSE tier \in TierFor(Truth(used).input, tiers) : TRUE
    IN  Sum(LAMBDA c : used[c] * Rate(tier, c), Cells)

-----------------------------------------------------------------------------
(* Properties. *)

\* A bill that is called complete charges every token of every attempt once and
\* by its own rate, whichever counters the provider left out; rounding is at
\* most half a unit a charge (calculate.ts: "rounded half-up once per charge").
CompleteIsExact ==
    bill # Unpriced /\ bill.billing.status = "complete" =>
      LET n == Len(priced.attempts)
          exact == Sum(LAMBDA i : Exact(priced.attempts[i].used, priced.tiers), 1..n)
          error == 1000 * bill.billing.total - exact
      IN  error <= 4000 * n /\ -error <= 4000 * n

\* Usage that is called reported is what was used, over all attempts, and so is
\* every detail that is known (usage.ts snapshot, meter.ts finish).
ReportedIsExact ==
    bill # Unpriced /\ bill.status = "reported" =>
      \A f \in Complete \cup {f \in Detailed : Known(bill.tokens[f])} :
        bill.tokens[f] = Sum(LAMBDA i : Truth(priced.attempts[i].used)[f], DOMAIN priced.attempts)

\* Both: a bill and the usage it rests on are what was used.
BillsAreExact == CompleteIsExact /\ ReportedIsExact
=============================================================================
