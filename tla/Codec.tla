--------------------------------- MODULE Codec ---------------------------------
(***************************************************************************)
(* The texts of xmppconnutil.cpp: arguments of calls and signals as XML,   *)
(* and the body of an XMPP message, escaped or compressed.  A text is a    *)
(* sequence of fragments: the characters that mean something to a parser,  *)
(* names of tags, and pieces of plain text.  White space between tags and  *)
(* the formats of numbers are left out.                                    *)
(***************************************************************************)
EXTENDS Naturals, Sequences, SequencesExt, FiniteSetsExt

(* A MsgArg.  Text holds what a string says, or the elements of a scalar   *)
(* array; elems holds the members of a container.                          *)
Arg(type, text, elems) == [type |-> type, text |-> text, elems |-> elems]

Scalars    == {"string", "boolean", "int32"}
Containers == {"struct", "dict_entry", "variant", "array"}
Invalid    == Arg("invalid", <<>>, <<>>)

(* Where s first has the fragments of part, at from or later; 0: nowhere.  *)
Find(s, part, from) ==
    LET at == {i \in from .. Len(s) - Len(part) + 1 :
                  SubSeq(s, i, i + Len(part) - 1) = part}
    IN  IF at = {} THEN 0 ELSE Min(at)

-----------------------------------------------------------------------------
(* msgarg::ToString                                                        *)

Tagged(tag, attribute, inner) ==
    <<"<", tag>> \o attribute \o <<">">> \o inner \o <<"<", "/", tag, ">">>

(* An array of numbers: its elements in a row, not one tag for each.       *)
ScalarArrayToString(text) == Tagged("array", <<"byte">>, text)

RECURSIVE ArgToString(_)

(* The arguments of a message, or the members of a container, in a row.    *)
VectorToString(args) == FlattenSeq([i \in DOMAIN args |-> ArgToString(args[i])])

ArgToString(arg) ==
    CASE arg.type \in Scalars -> Tagged(arg.type, <<>>, arg.text)
      [] arg.type = "bytes"   -> ScalarArrayToString(arg.text)
      [] arg.type = "array"   -> Tagged("array", <<"type_sig">>, VectorToString(arg.elems))
      [] arg.type = "variant" -> Tagged("variant", <<"signature">>, VectorToString(arg.elems))
      [] OTHER                -> Tagged(arg.type, <<>>, VectorToString(arg.elems))

-----------------------------------------------------------------------------
(* msgarg::VectorFromString and FromString                                 *)

(* An array of numbers without elements is never set; one of booleans is.  *)
ScalarArrayFromString(content) ==
    IF content = <<>> THEN Invalid ELSE Arg("bytes", content, <<>>)

RECURSIVE CloseTag(_, _, _, _), VectorFromString(_), FromString(_)

(* Mutant: a tag that opens inside an element does not count.              *)
CloseTagFirst(content, tag, from, depth) == Find(content, <<"<", "/", tag, ">">>, from)

(* The end tag of the element that is open depth times: a start of the     *)
(* same tag before the next end opens it once more.                        *)
CloseTag(content, tag, from, depth) ==
    LET next  == Find(content, <<"<", "/", tag, ">">>, from)
        again == Find(content, <<"<", tag>>, from)
    IN  CASE next = 0                   -> 0
          [] again # 0 /\ again < next  -> CloseTag(content, tag, again + 2, depth + 1)
          [] depth = 1                  -> next
          [] OTHER                      -> CloseTag(content, tag, next + 4, depth - 1)

(* Element after element; what cannot be parsed ends the list.             *)
VectorFromString(content) ==
    LET start == Find(content, <<"<">>, 1)
        close == CloseTag(content, content[start + 1], start + 2, 1)
    IN  IF start = 0 \/ start = Len(content) \/ close = 0 THEN <<>>
        ELSE <<FromString(SubSeq(content, 1, close + 3))>>
             \o VectorFromString(SubSeq(content, close + 4, Len(content)))

(* One element: its tag is what precedes the first ">", its content what   *)
(* precedes the last "<".                                                  *)
FromString(element) ==
    LET pos     == Find(element, <<">">>, 1)
        typeTag == SubSeq(element, 1, pos)
        last    == Max({i \in DOMAIN element : element[i] = "<"})
        content == SubSeq(element, pos + 1, last - 1)
        elems   == VectorFromString(content)
    IN  CASE typeTag = <<"<", "array", "type_sig", ">">> -> Arg("array", <<>>, elems)
          [] typeTag = <<"<", "array", "byte", ">">> -> ScalarArrayFromString(content)
          [] typeTag = <<"<", "dict_entry", ">">> ->
                IF Len(elems) = 2 THEN Arg("dict_entry", <<>>, elems) ELSE Invalid
          [] typeTag = <<"<", "struct", ">">> -> Arg("struct", <<>>, elems)
          [] typeTag = <<"<", "variant", "signature", ">">> ->
                Arg("variant", <<>>, <<FromString(content)>>)
          [] \E t \in Scalars : typeTag = <<"<", t, ">">> -> Arg(typeTag[2], content, <<>>)
          [] OTHER -> Invalid

-----------------------------------------------------------------------------
(* str::EscapeXml and UnescapeXml.                                         *)

RECURSIVE Replaced(_, _, _)
Replaced(s, from, to) ==
    IF Find(s, from, 1) = 0 THEN s
    ELSE LET pos == Find(s, from, 1)
         IN  SubSeq(s, 1, pos - 1) \o to
             \o Replaced(SubSeq(s, pos + Len(from), Len(s)), from, to)

(* Quotes are treated like the brackets.                                   *)
EscapeXml(s) ==
    Replaced(Replaced(Replaced(s, <<"&">>, <<"&", "amp;">>),
                          <<"<">>, <<"&", "lt;">>),
               <<">">>, <<"&", "gt;">>)

(* The ampersand goes first, too: text that was an entity is one no more.  *)
UnescapeXml(s) ==
    Replaced(Replaced(Replaced(s, <<"&", "amp;">>, <<"&">>),
                          <<"&", "lt;">>, <<"<">>),
               <<"&", "gt;">>, <<">">>)

-----------------------------------------------------------------------------
(* str::Compress and Decompress: hexadecimal digits, the first of which is *)
(* zlib's 7; what is not such a text decompresses to itself.               *)

Compress(s) == <<"7">> \o s
Decompress(s) == IF s # <<>> /\ Head(s) = "7" THEN Tail(s) ELSE s

(* XmppTransport::SendImpl                                                 *)
Body(message, compress) == IF compress THEN Compress(message) ELSE EscapeXml(message)

(* XmppTransport::XmppStanzaHandler tells by the first character: messages *)
(* begin with an underscore.                                               *)
IsCompressed(body) == body # <<>> /\ Head(body) \notin {"_", "{"}

Message(body) == IF IsCompressed(body) THEN Decompress(body) ELSE UnescapeXml(body)
=============================================================================
