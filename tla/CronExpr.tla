------------------------------ MODULE CronExpr ------------------------------
(***************************************************************************)
(* Cron expressions (jobs/CronExpr.hpp).  An expression has five fields; a *)
(* field is the sequence of the comma-separated parts of its text, and a   *)
(* part is [star, from, to, slash]: `*', `a' or `a-b', with slash = <<n>>   *)
(* if `/n' follows and <<>> if nothing does.  A time is [minute, hour,      *)
(* mday, month, wday] in UTC, month 1-12.                                  *)
(***************************************************************************)
EXTENDS Integers

Star == [star |-> TRUE, from |-> 0, to |-> 0, slash |-> <<>>]
At(v) == [star |-> FALSE, from |-> v, to |-> v, slash |-> <<>>]

(* parse_field, one part: where it starts and ends, its step, and which    *)
(* parts are refused.                                                      *)
From(part, lo) == IF part.star THEN lo ELSE part.from
To(part, hi)   == IF part.star THEN hi ELSE part.to
Step(part)     == IF part.slash = <<>> THEN 1 ELSE part.slash[1]

ValidPart(part, lo, hi) ==
  /\ Step(part) > 0
  /\ From(part, lo) <= To(part, hi)
  /\ From(part, lo) >= lo /\ To(part, hi) <= hi

(* set_bit: 7 is another name of Sunday.                                   *)
Bit(v, dow) == IF dow /\ v = 7 THEN 0 ELSE v

(* The loop from start to end by step.                                     *)
PartBits(part, lo, hi, dow) ==
  {Bit(v, dow) : v \in {v \in From(part, lo)..To(part, hi) :
                          (v - From(part, lo)) % Step(part) = 0}}

FieldBits(field, lo, hi, dow) == UNION {PartBits(field[k], lo, hi, dow) : k \in DOMAIN field}

ValidField(field, lo, hi) == \A k \in DOMAIN field : ValidPart(field[k], lo, hi)

(* parse() refuses an expression one of whose fields is refused.           *)
Parses(e) ==
  /\ ValidField(e.minute, 0, 59) /\ ValidField(e.hour, 0, 23)
  /\ ValidField(e.mday, 1, 31) /\ ValidField(e.month, 1, 12) /\ ValidField(e.wday, 0, 7)

(* dom_star_ and dow_star_: the text of the field is exactly `*', which    *)
(* `*/1' and `*,*' are not.                                                *)
IsStar(field) == field = <<Star>>

(* If both days are restricted either may match, otherwise both must.      *)
Matches(e, t) ==
  LET domHit == t.mday \in FieldBits(e.mday, 1, 31, FALSE)
      dowHit == t.wday \in FieldBits(e.wday, 0, 7, TRUE)
  IN  /\ t.minute \in FieldBits(e.minute, 0, 59, FALSE)
      /\ t.hour \in FieldBits(e.hour, 0, 23, FALSE)
      /\ t.month \in FieldBits(e.month, 1, 12, FALSE)
      /\ IF ~IsStar(e.mday) /\ ~IsStar(e.wday) THEN domHit \/ dowHit ELSE domHit /\ dowHit
=============================================================================
