--------------------------- MODULE MCMessagePath ---------------------------
(***************************************************************************)
(* The way of a message in one run: the packets the redirect takes, the    *)
(* exchange in the proxy, the reply taken apart, the layout of the strip,  *)
(* and the stored message on the phone.  The parts share no state: a       *)
(* behaviour exercises one of them (part) and leaves the others' variables *)
(* alone, so that their states add up.                                     *)
(***************************************************************************)
EXTENDS PhoneInbox, TapFlows, ProxyForms, HoppieWire, TicketLayout

VARIABLE part

phone == vars
path == <<part, phone, flowVars, formVars, wireVars, layoutVars>>

Unused == "unused"

\* Bodies with braces of their own, closed or not; with what looks like a
\* message, in braces or after braces that close the block; with a number.
WrittenBodies ==
  {<<>>, <<"x">>, <<"@", "x">>, <<"{">>, <<"}">>, <<"{", "x", "}">>, <<"}", "{">>,
   <<"ATC", "telex", "{", "x", "}">>, <<"}", "}", "{", "ATC", "telex", "{">>,
   <<"7", "telex", "{", "}">>}

\* Words as long as the rows of the paper make a difference to.
WordLengths(width) == {1, width - 2, width - 1, width, width + 1, 2 * width + 1}

\* A part has its initial states when it is the one exercised.
PathInit ==
  /\ part \in {"flows", "forms", "wire", "phone", "layout"}
  /\ Init
  /\ FlowsInit /\ (part # "flows" => https)
  /\ IF part = "forms" THEN FormsInit
     ELSE /\ exchange = "received" /\ request = Unused /\ sent = Unused
          /\ reply = Unused /\ heard = Unused
  /\ IF part = "wire" THEN WireInit
     ELSE /\ stage = Unused /\ written = Unused /\ status = Unused /\ asked = Unused
          /\ filter = Unused /\ parsed = Unused /\ taken = Unused
  /\ LayoutInit
  /\ part # "layout" => paper = CHOOSE p \in Paper : TRUE

PathNext ==
  /\ UNCHANGED part
  /\ \/ part = "flows" /\ FlowsNext
        /\ UNCHANGED <<phone, formVars, wireVars, layoutVars>>
     \/ part = "forms" /\ FormsNext
        /\ UNCHANGED <<phone, flowVars, wireVars, layoutVars>>
     \/ part = "wire" /\ WireNext
        /\ UNCHANGED <<phone, flowVars, formVars, layoutVars>>
     \/ part = "phone" /\ Next
        /\ UNCHANGED <<flowVars, formVars, wireVars, layoutVars>>
     \/ part = "layout" /\ LayoutNext
        /\ UNCHANGED <<phone, flowVars, formVars, wireVars>>

PathSpec == PathInit /\ [][PathNext]_path
=============================================================================
