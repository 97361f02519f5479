---------------------------- MODULE MCMetricLines ----------------------------
(* Small DogStatsD lines for MetricParsing: three names, tags in several    *)
(* orders with and without repetitions, optional fields in both orders.  A  *)
(* value of -1 does not parse.                                              *)
EXTENDS Integers, Sequences

A == <<"a", "1">>
B == <<"b", "2">>
O == <<"origin", "azurefunction">>
R == <<"dd.internal.resource", "kind:name">>
MCTagOrder == <<A, B, R, O>>

Field(prefix, text, n, tags) == [prefix |-> prefix, text |-> text, n |-> n, tags |-> tags]
Tagged(tags) == Field("#", "tags", 0, tags)
Timed(n) == Field("T", "number", n, <<>>)
Rate == Field("@", "number", 1, <<>>)
BadRate == Field("@", "garbled", 1, <<>>)
Other == Field("x", "other", 0, <<>>)
Line(name, values, type, fields) ==
  [form |-> "metric", name |-> name, values |-> values, type |-> type, fields |-> fields]

Plain == Line(<<"app">>, <<1>>, "c", <<>>)
With(fields) == [Plain EXCEPT !.fields = fields]

MCLines ==
  {With(f) : f \in {<<>>, <<Timed(14)>>, <<Timed(99)>>, <<Timed(-4)>>, <<Rate, Other>>,
                    <<Tagged(<<A, B>>)>>, <<Tagged(<<B, A>>)>>, <<Tagged(<<A, A, B>>)>>,
                    <<Tagged(<<A, B, A>>)>>, <<Tagged(<<A, B, R, O>>)>>, <<Tagged(<<R>>)>>,
                    <<Tagged(<<A, B>>), Timed(14)>>, <<Timed(14), Tagged(<<A, B>>)>>,
                    <<Timed(14), BadRate>>, <<BadRate, Timed(14)>>,
                    <<Tagged(<<A>>), Tagged(<<B>>)>>, <<Field("T", "empty", 0, <<>>)>>}}
  \cup {Line(<<"jvm", "heap">>, <<2, 3>>, "g", <<Tagged(<<O>>)>>),
        Line(<<"datadog", "x">>, <<2>>, "d", <<Tagged(<<O>>)>>),
        Line(<<"aws", "lambda", "y">>, <<2>>, "d", <<Tagged(<<R>>)>>),
        Line(<<"aws", "lambda", "enhanced", "invocations">>, <<1>>, "c", <<>>),
        Line(<<"app">>, <<-1>>, "c", <<>>), Line(<<"app">>, <<1>>, "ms", <<>>),
        Line(<<>>, <<1>>, "c", <<>>), Line(<<"app">>, <<>>, "c", <<>>),
        [Plain EXCEPT !.form = "event"], [Plain EXCEPT !.form = "no_colon"]}

MCNamespaces == {<<>>, <<"ns">>, <<"1">>, <<"ns", "my-app">>}
MCLetters == {"ns", "my-app"}
MCWords == {"ns", "1"}
MCBaseTags == {<<>>, <<O>>}
MCTimes == {9, 14, 21}
=============================================================================
