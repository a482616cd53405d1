----------------------------- MODULE QueryInputs -----------------------------
(* Queries and rows for model checking *)
EXTENDS Naturals, Sequences

LowerCase(c) == IF c = "A" THEN "a" ELSE c

Rows ==
  <<[c |-> <<"A">>, d |-> <<"b">>], [c |-> <<"a", "b">>, d |-> <<"b", "A">>],
    [c |-> <<"b", "A">>, d |-> <<"a">>]>>

RowValues == [id \in 0..2 |-> Rows[id + 1]]

Quoted(q, body) == <<q>> \o body \o <<q>>

Filter(column, oper, not, literal) ==
  [kind |-> "filter", column |-> column, oper |-> oper, not |-> not, literal |-> literal]

Join(kind, left, right) == [kind |-> kind, left |-> left, right |-> right]

\* Single quotes; at most one pattern of a query ignores case
Filters ==
  {Filter("c", oper, FALSE, Quoted("'", body)) :
     oper \in {"=", "!=", "starts", "ends"}, body \in {<<>>, <<"a">>, <<"b", "A">>}}
  \cup {Filter("c", oper, TRUE, Quoted("'", <<"a">>)) : oper \in {"starts", "ends"}}
  \cup {Filter("d", "regex", FALSE, Quoted("'", body)) : body \in {<<"a", "/", "i">>, <<"[">>}}
  \cup {Filter("x", "=", FALSE, Quoted("'", <<"a">>))}

Wheres ==
  {<<>>} \cup {<<f>> : f \in Filters}
  \cup {<<Join(kind, 2, 3), f, g>> : kind \in {"and", "or"}, f \in Filters, g \in Filters}
  \cup {<<Join("or", 2, 3), f, Join("and", 4, 5), f, g>> : f \in Filters, g \in Filters}
  \cup {<<Join("and", 2, 5), Join("or", 3, 4), f, g, f>> : f \in Filters, g \in Filters}

PlainQueries == {[table |-> t, where |-> w] : t \in {"files"}, w \in Wheres}
  \cup {[table |-> "nosuch", where |-> <<f>>] : f \in Filters}

\* As in the table of operators of the documentation, with both straight quotes
QuoteQueries ==
  {[table |-> "files", where |-> <<Filter("c", "=", FALSE, Quoted(q, <<"A">>))>>] : q \in {"'", "\""}}
  \cup {[table |-> "files", where |-> <<f>>] : f \in Filters}

\* The same pattern with and without the ignore-case flag
CacheQueries ==
  {[table |-> "files",
    where |-> <<Join(kind, 2, 3), Filter("c", "regex", FALSE, Quoted("'", p)),
                Filter("d", "regex", FALSE, Quoted("'", q))>>] :
     kind \in {"and", "or"}, p \in {<<"a">>, <<"a", "/", "i">>}, q \in {<<"a">>, <<"a", "/", "i">>}}

=============================================================================
