------------------------------- MODULE MCSelect -------------------------------
(* Select on a tenant table a, its child b, and a table s in two shards.    *)
EXTENDS Select, Recursion

MCBases ==
    [a |-> [table |-> "a", alias |-> "", tenant |-> TRUE, soft |-> "yes", sharded |-> FALSE, own |-> NoShard],
     b |-> [table |-> "b", alias |-> "y", tenant |-> TRUE, soft |-> "yes", sharded |-> FALSE, own |-> NoShard],
     s |-> [table |-> "s", alias |-> "", tenant |-> FALSE, soft |-> "no", sharded |-> TRUE, own |-> NoShard],
     z |-> [table |-> "s", alias |-> "", tenant |-> FALSE, soft |-> "no", sharded |-> TRUE, own |-> 2]]

(* id, tenant, deleted, ref *)
MCDB ==
    (<<"a">> :> << <<1,1,0,1>>, <<2,2,0,1>>, <<3,1,1,1>>, <<4,1,0,2>>, <<5,2,0,4>> >>) @@
    (<<"b">> :> << <<1,1,0,1>>, <<2,2,0,4>>, <<3,1,1,4>>, <<4,1,0,2>>, <<5,2,0,1>> >>) @@
    (<<"s", 1>> :> << <<1,1,0,1>>, <<4,2,0,4>> >>) @@
    (<<"s", 2>> :> << <<1,2,0,2>> >>)

Base(id) == TableRef("base", id)
New(t) == [SelectBuilder EXCEPT !.from = t]
OnB == Cmp("=", Col("b", "ref"), Col("a", "id"))

Derived2 == [New(Base("b")) EXCEPT !.alias = "d", !.ctxTenant = 2,
                                   !.fields = <<Col("b", "id"), Col("b", "ref")>>,
                                   !.columns = <<"id", "ref">>]
Plain == [New(Base("a")) EXCEPT !.fields = <<Col("a", "ref")>>, !.columns = <<"ref">>]
Left(t, on) == [kind |-> "left", table |-> t, on |-> <<on>>]

MCInitial ==
    << <<Plain, Derived2>>,
      <<[Plain EXCEPT !.joins = <<Left(Base("b"), OnB)>>], Derived2>>,
      <<[Plain EXCEPT !.joins = <<Left(TableRef("sub", 2),
             Cmp("=", Free("d", "ref"), Col("a", "id")))>>], Derived2>>,
      <<[New(TableRef("cte", "c")) EXCEPT !.fields = <<Free("c", "id")>>, !.columns = <<"id">>,
                                          !.ctes = <<[a |-> "c", q |-> 2]>>], Derived2>>,
      <<[New(Base("s")) EXCEPT !.fields = <<Col("s", "id")>>, !.columns = <<"id">>, !.shard = 1],
        [New(Base("s")) EXCEPT !.fields = <<Col("s", "id")>>, !.columns = <<"id">>, !.alias = "d"]>> >>

MCItems == <<Col("a", "ref"), Fn("Coalesce", <<Col("a", "ref"), Val(1)>>, <<>>)>>
MCPredicates ==
    << Raw("or", <<1>>), OnB, Exists(2), InExpr(Col("a", "ref"), 2),
      NOT(In(Col("a", "id"), <<1, 2>>)), Cmp(">", Col("a", "del"), Val(0)) >>
MCTables == <<Base("b"), Base("z"), TableRef("sub", 2)>>
MCTenantLists == {<<>>, <<1, 2>>}
MCRequests == {NoTenant, 1}
MCScoped == {1, 2}
MCNumbers == {-1, 1}
=============================================================================
