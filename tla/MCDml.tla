-------------------------------- MODULE MCDml --------------------------------
(* DmlExec on a tenant table a with soft delete, a tenant table b under an   *)
(* alias, a plain table c and a table s in two shards.                       *)
EXTENDS DmlExec, Recursion

Table(t, alias, tenant, soft) ==
    [table |-> t, alias |-> alias, tenant |-> tenant, soft |-> soft, sharded |-> FALSE,
     own |-> NoShard, primary |-> <<"id">>]
MCBases ==
    [a |-> Table("a", "", TRUE, "yes"), b |-> Table("b", "y", TRUE, "no"),
     c |-> Table("c", "", FALSE, "no"), s |-> [Table("s", "", FALSE, "no") EXCEPT !.sharded = TRUE]]

(* id, tenant, deleted, ref *)
MCDB ==
    (<<"a">> :> << <<1,1,0,1>>, <<2,2,0,1>>, <<4,1,0,2>> >>) @@
    (<<"b">> :> << <<1,1,0,1>>, <<2,2,0,4>>, <<5,2,0,1>> >>) @@
    (<<"c">> :> << <<1,1,0,4>> >>) @@
    (<<"s", 1>> :> << <<1,1,0,1>> >>) @@ (<<"s", 2>> :> << <<6,2,0,1>> >>)

V(c, v) == columnValue(c, Val(v))
Base(id) == TableRef("base", id)
Eq(l, r) == Cmp("=", l, r)
Query2 == [SelectBuilder EXCEPT !.from = Base("b"), !.alias = "q",
              !.fields = <<Col("b", "id"), Col("b", "tid"), Col("b", "ref")>>,
              !.conds = <<Cmp(">", Col("b", "id"), Val(0))>>]
Shard2 == [SelectBuilder EXCEPT !.from = Base("s"), !.shard = 2, !.fields = <<Col("s", "ref"), Col("s", "tid")>>]
New(k, t) == [DMLBuilder EXCEPT !.kind = k, !.table = t]
OnQ == Eq(Free("q", "ref"), Val(1))

R1 == <<V("id", 7), V("tid", 1)>>
R2 == <<V("tid", 1), V("id", 8), V("ref", 3)>>
R3 == <<V("id", 9), V("tid", 1), columnValue("ref", SqlNull)>>
U1 == <<V("id", 1), V("ref", 9), V("tid", 1)>>
U2 == <<V("ref", 8), V("id", 2), V("tid", 1)>>

MCInitial ==
    << <<[New("insert", "a") EXCEPT !.insertRows = <<R1, R2>>], Query2>>,
       <<[New("insert", "c") EXCEPT !.insertColumns = <<"id", "tid">>], Query2>>,
       <<[New("insertFrom", "a") EXCEPT !.selectBuilder = 2], Query2>>,
       <<[New("insertFrom", "s") EXCEPT !.selectBuilder = 2, !.shard = 1], Shard2>>,
       <<[New("update", "a") EXCEPT !.setValues = <<V("ref", 5)>>], Query2>>,
       <<[New("update", "b") EXCEPT !.setValues = <<columnValue("ref", Col("b", "id"))>>], Query2>>,
       <<[New("update", "a") EXCEPT !.batchUpdateRows = <<U1, U2>>], Query2>>,
       <<New("delete", "a"), Query2>>,
       <<New("delete", "b"), Query2>>,
       <<[New("delete", "a") EXCEPT !.unscoped = TRUE, !.joins = <<[kind |-> "inner",
            table |-> TableRef("sub", 2), on |-> <<OnQ>>]>>], Query2>> >>

MCRecords == <<R3, U1, <<V("id", 4)>>, <<V("id", 7), V("TID", 1)>>, <<V("id", 1), V("tid", 2)>> >>
MCTuples == << <<Val(1), Val(1)>>, <<Val(3), SqlNull>>, <<Val(3)>> >>
(* Two days after ref, or after day 1. *)
Later == Fn("DateAdd", <<Fn("Coalesce", <<Col("a", "ref"), Val(1)>>, <<>>), Val(2)>>, <<>>)
MCAssignable == <<V("ref", 6), V("tid", 2), V("TID", 1), columnValue("ref", Later),
                  columnValue("ref", Ex("excluded", "id", <<>>))>>
MCPredicates ==
    <<Raw("or", <<1>>), In(Col("a", "id"), <<1, 2>>), InExpr(Col("b", "ref"), 2)>>
Join(k, t, on) == [kind |-> k, table |-> t, on |-> <<on>>]
MCJoins ==
    <<Join("inner", Base("b"), Eq(Col("b", "ref"), Col("a", "id"))),
      Join("left", Base("c"), Raw("or", <<0>>)),
      Join("inner", TableRef("sub", 2), OnQ),
      Join("right", Base("c"), Eq(Col("c", "ref"), Val(4))) >>
MCPlain == <<V("ref", 6)>>
(* An update that joins c under a condition with a value. *)
MCJoined == << <<[New("update", "a") EXCEPT !.setValues = <<V("ref", 5)>>, !.joins =
                    <<Join("inner", Base("c"), Eq(Col("c", "ref"), Val(4)))>>], Query2>> >>
MCTargets == << <<"id">>, <<"id", "tid">> >>
MCTenantLists == {<<>>, <<2>>, <<1, 2>>}
MCRequests == {NoTenant, 1}
=============================================================================
