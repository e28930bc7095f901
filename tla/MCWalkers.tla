----------------------------- MODULE MCWalkers ------------------------------
(* The bodies of the API formats for checking Walkers on small instances. *)
EXTENDS Walkers

Path(api, marks) == [api |-> api, marks |-> marks]

SmallPaths ==
    {Path("gemini", {"gemini"}), Path("chat", {"/chat/completions"}), Path("responses", {"/responses"}),
     Path("batches", {"/messages", "/messages/batches"}), Path("messages", {"/messages"}),
     Path("complete", {"/complete"}), Path("none", {})}

Typed(type, rec) == Obj("type" :> Str(<<type>>) @@ rec)
Text(type, t)    == Typed(type, [text |-> Str(t)])
One(j)           == Arr(<<j>>)
User(content)    == Obj([role |-> Str(<<"user">>), content |-> content])

Ann == Raw("ann")

-----------------------------------------------------------------------------

SmallBody(f, messages) ==
    LET system == One(Text("text", Ann))
    IN  CASE f = "gemini" -> Obj([systemInstruction |-> Obj([parts |-> One(Obj([text |-> Str(Ann)]))]),
                                  contents |-> Arr(messages)])
          [] f = "responses" -> Obj([instructions |-> Str(Ann), input |-> Arr(messages)])
          [] f = "batches" ->
                Obj([requests |-> One(Obj([params |-> Obj([system |-> Str(Ann), messages |-> Arr(messages)])]))])
          [] f = "messages" -> Obj([system |-> system, messages |-> Arr(messages)])
          [] f = "complete" -> Obj([prompt |-> Last(messages)])
          [] f = "none" -> Arr(messages)
          [] OTHER -> Obj([messages |-> Arr(messages)])

SmallMessages(f, body) ==
    CASE f = "gemini" -> At(body, "contents")[2]
      [] f = "responses" -> At(body, "input")[2]
      [] f = "batches" -> At(At(At(body, "requests")[2][1], "params"), "messages")[2]
      [] f = "complete" -> <<At(body, "prompt")>>
      [] f = "none" -> body[2]
      [] OTHER -> At(body, "messages")[2]

SmallKept(f, j) ==
    CASE f = "gemini" -> [i \in DOMAIN At(j, "candidates")[2] |-> At(At(j, "candidates")[2][i], "content")]
      [] f = "chat" -> [i \in DOMAIN At(j, "choices")[2] |-> At(At(j, "choices")[2][i], "message")]
      [] f = "responses" -> At(j, "output")[2]
      [] f = "messages"  -> <<Obj([role |-> Str(<<"assistant">>), content |-> At(j, "content")])>>
      [] f = "complete"  -> <<At(j, "completion")>>
      [] f = "none"       -> <<j>>
      [] OTHER -> <<>>

-----------------------------------------------------------------------------

Blocks ==
    {Text("text", Ann), Str(Ann),
     Typed("tool_result", [content |-> Str(Ann)]),
     Typed("tool_result", [content |-> Arr(<<Text("text", Ann), Typed("image", [source |-> Typed("base64", [data |-> Str(Ann)])])>>)]),
     Typed("document", [title |-> Str(Ann), context |-> Str(Ann), source |-> Typed("text", [data |-> Str(Ann)])]),
     Typed("document", [source |-> Typed("content", [content |-> One(Text("text", Ann))])]),
     Typed("tool_use", [input |-> Obj([ann |-> Str(<<"plain">>)])])}

Contents == {Str(Ann)} \cup {One(b) : b \in Blocks}

SmallPrompts(f) ==
    CASE f = "gemini" ->
            {<<Obj([parts |-> One(p)])>> :
                p \in {Obj([text |-> Str(Ann)]), Obj([inlineData |-> Str(Ann)]),
                       Obj([functionResponse |-> Obj([name |-> Str(<<"f">>), response |-> One(Str(Ann))])])}}
      [] f = "responses" ->
            {<<User(c)>> : c \in Contents}
            \cup {<<Text("input_text", Ann)>>, <<Typed("function_call_output", [output |-> Str(Ann)])>>}
      [] f = "complete" -> {<<>>, <<Str(Ann)>>}
      [] OTHER -> {<<User(c)>> : c \in Contents}

SmallAnswers(f, texts) ==
    CASE f = "gemini" ->
            {Obj([candidates |-> One(Obj([content |-> Obj([parts |-> Arr(ps)])]))]) :
                ps \in {<<Obj([text |-> Str(t)]), Obj([functionCall |-> Obj([args |-> Obj([q |-> Str(u)])])])>> :
                            t \in texts, u \in texts}
                       \cup {<<Obj([executableCode |-> Str(t)])>> : t \in texts}}
      [] f = "chat" ->
            {Obj([choices |-> One(Obj([message |-> m]))]) :
                m \in {Obj([content |-> Str(t)]) : t \in texts}
                      \cup {Obj([tool_calls |-> One(Obj([arguments |-> Str(t)]))]) : t \in texts}}
      [] f = "responses" ->
            {Obj([output |-> Arr(items)]) :
                items \in {<<Typed("message", [content |-> One(Text("output_text", t))]),
                             Typed("reasoning", [summary |-> One(Text("summary_text", u))])>> :
                               t \in texts, u \in texts}
                          \cup {<<Typed("function_call", [arguments |-> Str(t)])>> : t \in texts}}
      [] f = "messages" ->
            {Obj([content |-> Arr(bs)]) :
                bs \in {<<Typed("thinking", [thinking |-> Str(t)]), Text("text", u)>> : t \in texts, u \in texts}
                       \cup {<<Typed("tool_use", [input |-> Obj([q |-> One(Str(t))])]),
                               Typed("text", [text |-> Str(u), citations |-> One(Str(t))])>> :
                                 t \in texts, u \in texts}}
      [] f = "batches" -> {Obj([id |-> Str(<<"batch">>)])}
      [] f = "complete" -> {Obj([completion |-> Str(t)]) : t \in texts}
      [] OTHER -> {Obj([content |-> Str(t)]) : t \in texts}

=============================================================================
