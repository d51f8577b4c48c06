----------------------------- MODULE MCHttpServer -----------------------------
(***************************************************************************)
(* The requests for TLC: every branch of the decision, bodies in one and   *)
(* two chunks, declared lengths that are true, absent or wrong.            *)
(***************************************************************************)
EXTENDS HttpServer, TLC

Call(tool) == Document("object", "tools/call", tool)
Post(document, sizes, length) == Request("POST", "mcp", "valid", length, sizes, document)

MCArrivals ==
  {Request("POST", "mcp", token, -1, <<1>>, Call("preview_dataset")) :
     token \in {"missing", "invalid"}}
  \cup {Post(Call("preview_dataset"), sizes, -1) : sizes \in {<<1>>, <<1, 1>>, <<2, 1>>}}
  \cup {Post(Call("preview_dataset"), <<1>>, 3), Post(Call("preview_dataset"), <<2, 2>>, 1)}
  \cup {Post(document, <<1>>, 1) : document \in
          {Call("query_dataset"), Call("materialize_hot_set"), Call("drop_dataset"),
           Call(""), Document("object", "ping", ""), Document("object", "tools/list", ""),
           Document("object", "resources/read", "resource://catalog"),
           Document("object", "resources/read", "resource://other"),
           Document("object", "logging/setLevel", ""), Document("object", "", ""),
           Document("other", "", ""), Document("text", "", ""),
           Document("bytes", "", "")}}
  \cup {Post(NoDocument, <<0>>, 0),
        Request("GET", "mcp", "valid", -1, <<0>>, NoDocument),
        Request("GET", "mcp", "valid", -1, <<1>>, Call("preview_dataset")),
        Request("GET", "startup", "missing", -1, <<0>>, NoDocument)}

MCSymmetry == Permutations(Clients)
=============================================================================
