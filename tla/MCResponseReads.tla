-------------------------- MODULE MCResponseReads --------------------------
(* The small instance of ResponseReads: blocks as the server writes them,    *)
(* blocks it should not write, and payloads longer than the parser holds;    *)
(* one object id under two identities; documents around the last exact       *)
(* integer and the longest id; events in every spelling; and, of two loops,  *)
(* previews that meet the bound on keys, or on bytes.                        *)
EXTENDS ResponseReads

Enduring == <<<<"event">>, <<"id">>, <<"data", "x", "x">>>>
Ephemeral == <<<<"other">>, <<"data", "x">>, <<"data", "x">>>>
Ping == <<<<":", "x">>>>
Unnumbered == <<<<"event">>, <<"data", "x", "x">>>>
Unnamed == <<<<"data", "x", "x">>>>
Long == <<<<"event">>, <<"id">>, <<"data", "x", "x", "x", "data", "x", "x">>>>
LongComment == <<<<"other">>, <<"data", "x", "x">>, <<":", "x", "x", "x", ":">>>>
MCBlocks == {Enduring, Ephemeral, Ping, Unnumbered, Unnamed, Long, LongComment, <<>>}
MCBreaks == {<<"lf">>, <<"cr">>, <<"cr", "lf">>}

MCProps ==
    {[reads |-> 1, object |-> "o", bytes |-> 3], [reads |-> 2, object |-> "o", bytes |-> 0],
     [reads |-> 1, object |-> "none", bytes |-> 1]}
MCContents == {<<>>, <<0, 0, 0>>, <<0, 1, 1>>}

Numbers == 0..6
Ids == {<<1>>, <<3>>}
Pages == {<<>>} \union {<<n>> : n \in Numbers} \union (Numbers \X Numbers)
Instants == [ms : 1..2, finer : 0..1]
MCDocuments ==
    [kind : {"journal"}, ids : Ids, tip : Numbers, covered : Numbers, seqs : Pages]
    \union [kind : {"gates"}, ids : {<<1>>}, tip : Numbers, count : {0, 2}, seqs : Pages]
    \union [kind : {"reset"}, ids : {<<1, 2>>}, last : Numbers, tip : Numbers]
    \union [kind : {"tip", "status"}, ids : {<<0>>, <<2>>}, tip : Numbers]
    \union [kind : {"enduring"}, ids : Ids, seq : Numbers, covered : Numbers]
    \union [kind : {"agent", "department", "object"}, ids : {<<0>>, <<2>>, <<3>>}]
    \union [kind : {"ephemeral"}, ids : Ids, durable : BOOLEAN]
    \union [kind : {"command"}, ids : Ids, status : {"applied", "rejected"}, error : BOOLEAN]
    \union [kind : {"recent"}, ids : Ids, times : UNION {[1..n -> Instants] : n \in 0..3}]

Nothing == [as |-> "nothing", value |-> ""]
Spelled(values) == {Nothing, [as |-> "string", value |-> ""], [as |-> "number", value |-> "4"]}
                      \union [as : {"string"}, value : values]
Caused == Spelled({"zeros", "l"})
Signed == {[tenant |-> t, subject |-> s, kind |-> k] :
             t \in {Nothing, [as |-> "string", value |-> "t"]}, s \in {[as |-> "string", value |-> "s"]},
             k \in {[as |-> "string", value |-> v] : v \in {"actor", "robot"}}}

Block(tag, text, kept, use) == [tag |-> tag, text |-> text, state |-> kept, id |-> use]
Say == Block("text", <<1, Newline, 2>>, "none", "")
Refuse == Block("refusal", <<3>>, "none", "")
Withheld(kept) == Block("thinking", <<>>, kept, "")
Think == Block("thinking", <<4>>, "bytes", "")
Use(use) == Block("tool_use", <<>>, "none", use)
Image == Block("image", <<>>, "none", "")
Message(role, blocks, use, error) == [role |-> role, blocks |-> blocks, use |-> use, error |-> error]
NullMessage == Message("null", <<>>, "", FALSE)
ResultOf(use, error) == Message("tool", <<Block("text", <<IF use = "u" THEN 5 ELSE 6>>, "none", "")>>, use, error)

Sayings == {<<Say, Refuse, Say>>, <<Refuse>>, <<Think, Withheld("bytes"), Think>>, <<Think, Use("u"), Say, Use("w")>>, <<Image, Use("u"), Use("w")>>}
              \union {<<Withheld(kept)>> : kept \in {"none", "null", "bytes"}}
Results == {<<>>, <<ResultOf("w", TRUE)>>, <<ResultOf("w", TRUE), NullMessage, ResultOf("u", FALSE)>>,
            <<ResultOf("u", FALSE), ResultOf("w", TRUE)>>}
Capture(use, exec, captured, encoding) ==
    [use |-> use, exec |-> exec, captured |-> captured, encoding |-> encoding, original |-> "count",
     truncated |-> TRUE, reason |-> "capture_ceiling"]
Whole == Capture("u", "x", 1, "utf-8")
Captures == {<<>>, <<Whole>>, <<Whole, Capture("u", "x", -1, "utf-8")>>, <<Capture("w", "", 1, "binary"), Whole>>}

Groups == {<<Message("assistant", c, "", FALSE)>> \o r : c \in Sayings, r \in Results}
             \union {<<NullMessage, Message("user", <<Say>>, "", FALSE), Message("assistant", <<Say>>, "", FALSE),
                       Message("assistant", <<Refuse>>, "", FALSE)>>, <<Message("assistant", <<Say>>, "", FALSE)>>,
                     <<NullMessage>>}
MCRecords ==
    [kind : {"StepDone"}, messages : Groups, captures : Captures]
    \union [kind : {"TurnStarted"}, cause : Caused, message : BOOLEAN, blocks : {2}, prefix : -1..2, suffix : -1..1,
            principal : Signed]
    \union [kind : {"TurnFailed"}, errorKind : Spelled({"unknown", "tool_limit"}), message : Spelled({"why"})]
    \union [kind : {"TurnRejected"}, reason : {Nothing, [as |-> "string", value |-> "1"]}
                                               \union [as : {"number"}, value : {"0", "1", "9"}]]
    \union [kind : {"LoopStarted"}, cause : Caused, use : Spelled({"u"}), name : Spelled({"n"}), agent : Spelled({"a"})]
    \union [kind : {"GateResolved"}, action : Spelled({"allow"}), principal : Signed]
MCStream == <<<<"x", "hi">>, <<"lo">>, <<"x">>>>
MCLimits == {[keys |-> 1, bytes |-> 9, tombstones |-> 1], [keys |-> 2, bytes |-> 6, tombstones |-> 2]}
=============================================================================
