-------------------------------- MODULE Cli --------------------------------
(***************************************************************************)
(* The command line of mtraceroute: get_args and parse_args (args.c).     *)
(*                                                                         *)
(* A command line is a sequence of tokens.  A token is a short option     *)
(* "-x", a long option "--name", or a word.  A word carries its text and  *)
(* what atoi makes of it: the number of a numeral, 0 of a word starting   *)
(* with a letter.  parse_int and parse_conf see the number, parse_cmd,    *)
(* parse_method and parse_flow_id compare the text.  Bundled              *)
(* short options ("-hp") and abbreviated long options are not modelled.   *)
(*                                                                         *)
(* getopt_long is glibc's: it skips words (permuting them behind the      *)
(* options), returns '?' for an unknown option or a missing argument, and *)
(* takes the has_arg of a short option from the optstring built by        *)
(* parse_args and that of a long option from long_opts.                   *)
(***************************************************************************)
EXTENDS Integers, Sequences, FiniteSets, TLC

CONSTANT CommandLines   \* the argv[1..] the model runs get_args on

Opt(c)     == [kind |-> "short", name |-> c]
LongOpt(s) == [kind |-> "long", name |-> s]
Num(s, n)  == [kind |-> "word", text |-> s, atoi |-> n, numeral |-> TRUE]
Word(s)    == [kind |-> "word", text |-> s, atoi |-> 0, numeral |-> FALSE]

CMD_TRACEROUTE == 1
CMD_PING == 2
CMD_MDA == 3
METHOD_ICMP == 1
METHOD_UDP == 2
METHOD_TCP == 3
FLOW_UDP_SPORT == 5

\* The values the text-keyed parse functions accept (args.c, args.h).
Commands == [traceroute |-> CMD_TRACEROUTE, ping |-> CMD_PING, mda |-> CMD_MDA]
Methods  == [icmp |-> METHOD_ICMP, udp |-> METHOD_UDP, tcp |-> METHOD_TCP]
Flows    == ("icmp-chk" :> 1 @@ "icmp-dst" :> 2 @@ "icmp-fl" :> 3 @@
             "icmp-tc" :> 4 @@ "udp-sport" :> 5 @@ "udp-dst" :> 6 @@
             "udp-fl" :> 7 @@ "udp-tc" :> 8 @@ "tcp-sport" :> 9 @@
             "tcp-dst" :> 10 @@ "tcp-fl" :> 11 @@ "tcp-tc" :> 12)

\* A parse function applied to a word: the value stored, or -1.
Lookup(f, w) == IF w.text \in DOMAIN f THEN f[w.text] ELSE -1
parse_cmd(w)     == Lookup(Commands, w)
parse_method(w)  == Lookup(Methods, w)
parse_flow_id(w) == Lookup(Flows, w)
parse_conf(w)    == IF w.atoi \in {90, 95, 99} THEN w.atoi ELSE -1
parse_int(w)     == w.atoi
Parse(fn, w) ==
  CASE fn = "parse_cmd"     -> parse_cmd(w)
    [] fn = "parse_method"  -> parse_method(w)
    [] fn = "parse_flow_id" -> parse_flow_id(w)
    [] fn = "parse_conf"    -> parse_conf(w)
    [] fn = "parse_int"     -> parse_int(w)

\* The opts table of get_args, in its order; d names the field of struct
\* args the parse function writes.
X(name, has, val, fn, d) == [name |-> name, has_arg |-> has, val |-> val,
                             fn |-> fn, d |-> d]
opts == << X("help", "no", "h", "show_usage", "none"),
           X("confidence", "required", "a", "parse_conf", "a"),
           X("command", "required", "c", "parse_cmd", "c"),
           X("flow-id", "required", "f", "parse_flow_id", "f"),
           X("max-ttl", "required", "h", "parse_int", "h"),
           X("method", "required", "m", "parse_method", "m"),
           X("send-probes", "required", "n", "parse_int", "n"),
           X("probes-at-once", "required", "p", "parse_int", "p"),
           X("retries", "required", "r", "parse_int", "r"),
           X("wait", "required", "w", "parse_int", "w"),
           X("send-wait", "required", "z", "parse_int", "z") >>

\* get_xoption: the first entry whose val is n, or 0 for NULL.
FirstWhere(field, v) ==
  LET ks == {k \in 1..Len(opts) : opts[k][field] = v}
  IN  IF ks = {} THEN 0 ELSE CHOOSE k \in ks : \A j \in ks : k <= j
get_xoption(n) == FirstWhere("val", n)

\* The entry getopt_long takes an option's has_arg from: the first
\* character of short_opts equal to it (strchr), or the long_opts entry
\* whose name it is.
ShortOptsEntry(c) == FirstWhere("val", c)
LongOptsEntry(s)  == FirstWhere("name", s)
GetoptEntry(t) ==
  IF t.kind = "short" THEN ShortOptsEntry(t.name) ELSE LongOptsEntry(t.name)

Defaults == [a |-> 95, c |-> CMD_TRACEROUTE, f |-> FLOW_UDP_SPORT, h |-> 30,
             m |-> METHOD_ICMP, n |-> 5, p |-> 3, r |-> 2, w |-> 5, z |-> 20]

VARIABLES argv,      \* the command line
          optind,    \* the next token getopt_long looks at
          operands,  \* the words getopt_long skipped (permuted to the end)
          args,      \* struct args
          dst,       \* args->dst, "none" until copied
          pc,        \* "parse", then "dest", then "done"
          result     \* what get_args returns: "args" or "NULL"
vars == <<argv, optind, operands, args, dst, pc, result>>

Init ==
  /\ argv \in CommandLines
  /\ optind = 1 /\ operands = <<>>
  /\ args = Defaults /\ dst = "none"
  /\ pc = "parse" /\ result = "none"

Fail == pc' = "done" /\ result' = "NULL"
Tok == argv[optind]

\* getopt_long skips a word.
getopt_skip ==
  /\ pc = "parse" /\ optind <= Len(argv) /\ Tok.kind = "word"
  /\ optind' = optind + 1 /\ operands' = Append(operands, Tok)
  /\ UNCHANGED <<argv, args, dst, pc, result>>

\* getopt_long returns -1 (no tokens left) or '?' (unknown option, or a
\* required argument missing): the loop breaks.  After -1 optind is the
\* first of the permuted words; after '?' it is the token after the option,
\* and the words skipped before it lie behind optind, out of the count.
getopt_break ==
  /\ pc = "parse"
  /\ \/ optind > Len(argv)
     \/ /\ optind <= Len(argv) /\ Tok.kind /= "word"
        /\ \/ GetoptEntry(Tok) = 0
           \/ /\ GetoptEntry(Tok) /= 0 /\ optind = Len(argv)
              /\ opts[GetoptEntry(Tok)].has_arg = "required"
  /\ pc' = "dest"
  /\ IF optind > Len(argv)
       THEN UNCHANGED <<optind, operands>>
       ELSE optind' = optind + 1 /\ operands' = <<>>
  /\ UNCHANGED <<argv, args, dst, result>>

\* getopt_long returns an option's val, with optarg the next token when its
\* getopt entry requires one; parse_args then dispatches on get_xoption(val).
getopt_option ==
  /\ pc = "parse" /\ optind <= Len(argv) /\ Tok.kind /= "word"
  /\ GetoptEntry(Tok) /= 0
  /\ LET g    == opts[GetoptEntry(Tok)]
         next == g.val
         o    == opts[get_xoption(next)]
         arg  == g.has_arg = "required"
         w    == argv[optind + 1]
     IN  /\ ~(arg /\ optind = Len(argv))
         /\ optind' = optind + (IF arg THEN 2 ELSE 1)
         /\ CASE o.has_arg = "no" ->                 \* show_usage returns -1
                   Fail /\ UNCHANGED args
              [] o.fn = "parse_conf" ->              \* *r = atoi(s) first
                   /\ args' = [args EXCEPT ![o.d] = w.atoi]
                   /\ IF parse_conf(w) = -1 THEN Fail
                      ELSE UNCHANGED <<pc, result>>
              [] Parse(o.fn, w) = -1 -> Fail /\ UNCHANGED args
              [] OTHER ->
                   /\ args' = [args EXCEPT ![o.d] = Parse(o.fn, w)]
                   /\ UNCHANGED <<pc, result>>
  /\ UNCHANGED <<argv, operands, dst>>

\* Once the loop ends, the destination is argv[optind] when optind is
\* argc - 1; getopt_long left optind at the first permuted word.
Rest == operands \o SubSeq(argv, optind, Len(argv))
parse_dest ==
  /\ pc = "dest"
  /\ IF Len(Rest) = 1
       THEN dst' = Rest[1].text /\ result' = "args"
       ELSE dst' = dst /\ result' = "NULL"
  /\ pc' = "done"
  /\ UNCHANGED <<argv, optind, operands, args>>

Terminated == pc = "done" /\ UNCHANGED vars

Next == getopt_skip \/ getopt_break \/ getopt_option \/ parse_dest \/ Terminated
Spec == Init /\ [][Next]_vars /\ WF_vars(Next)

(***************************************************************************)
(* The command line as spec.md documents it:                               *)
(*   prog ADDRESS [-c traceroute|ping|mda] [-w wait] [-z send_wait]        *)
(*        [-a 90|95|99] [-f flow-id] [-h max_ttl] [-m icmp|udp|tcp]        *)
(*        [-p probes_at_once] [-n ping_count] [-r retries]                 *)
(* Each option letter names the field of struct args it sets.              *)
(***************************************************************************)
Documented == {"c", "w", "z", "a", "f", "h", "m", "p", "n", "r"}
ValidValue(x, w) ==
  CASE x = "c" -> w.text \in DOMAIN Commands
    [] x = "m" -> w.text \in DOMAIN Methods
    [] x = "f" -> w.text \in DOMAIN Flows
    [] x = "a" -> w.numeral /\ w.atoi \in {90, 95, 99}
    [] OTHER   -> w.numeral
DocumentedValue(x, w) ==
  CASE x = "c" -> Commands[w.text]
    [] x = "m" -> Methods[w.text]
    [] x = "f" -> Flows[w.text]
    [] OTHER   -> w.atoi
OptionAt  == {k \in 1..Len(argv) : argv[k].kind /= "word"}
AddressAt == {k \in 1..Len(argv) : argv[k].kind = "word" /\ k - 1 \notin OptionAt}
DocumentedLine ==
  /\ \A k \in OptionAt :
        /\ argv[k].kind = "short" /\ argv[k].name \in Documented
        /\ k < Len(argv) /\ argv[k + 1].kind = "word"
        /\ ValidValue(argv[k].name, argv[k + 1])
  /\ Cardinality(AddressAt) = 1
\* The last occurrence of an option wins; an absent one keeps its default.
Expected ==
  [f \in DOMAIN Defaults |->
     LET ks == {k \in OptionAt : argv[k].name = f}
     IN  IF ks = {} THEN Defaults[f]
         ELSE LET k == CHOOSE k \in ks : \A j \in ks : j <= k
              IN  DocumentedValue(f, argv[k + 1])]

\* get_args accepts every command line of the documented form, with the
\* destination its one positional word and every option's value in the
\* field the option names.
CommandLineAsDocumented ==
  pc = "done" /\ DocumentedLine =>
    /\ result = "args"
    /\ dst = argv[CHOOSE k \in AddressAt : TRUE].text
    /\ args = Expected
=============================================================================
