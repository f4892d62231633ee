-------------------------------- MODULE MCQuota -------------------------------
(* Forms that are saved, with three windows, with two in the other order,    *)
(* with one, a shorter or a longer one, and with none but dropped rows; and  *)
(* forms that are refused.                                                   *)
EXTENDS Quota

Row(kind, amount, period) == [kind |-> kind, amount |-> amount, period |-> period]
Number(amount, period) == Row("number", amount, period)

MCForms ==
  {<<Number(1, "1h"), Number(2, "24h"), Number(2, "30d")>>,
   <<Number(2, "30d"), Row("blank", 0, "24h"), Number(1, "1h")>>,
   <<Number(1, "24h")>>,
   <<Number(3, "30d")>>,
   <<Number(0, "30d")>>,
   <<Row("malformed", 0, "24h"), Number(1, "30d")>>,
   <<Number(2, "24h"), Number(1, "30d")>>,
   <<Number(1, "24h"), Number(2, "24h")>>,
   <<Number(1, "2w")>>}
=============================================================================
