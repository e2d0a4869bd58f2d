----------------------------- MODULE MCOutputs -----------------------------
(***************************************************************************)
(* The output plugins, each alone: a plugin shares nothing with another.   *)
(* Two SSH sessions of two endpoints and a Telnet session, each number 0;  *)
(* two SQL sessions, one telling its client version and logging in by key, *)
(* one with a password; one address; one file and one URL.                 *)
(***************************************************************************)
EXTENDS Emit, SqlOutput, AbuseIpdb, VtOutput

VARIABLE plugin

MCPort == <<"S", "S", "T">>
MCNumber == <<0, 0, 0>>
MCMaxEvents == <<2, 1, 0>>
MCLogs == <<{"clients", "key"}, {"auth"}>>
MCMaxFaults == [d \in Databases |-> IF d = "sqlite" THEN 0 ELSE 1]

outVars == <<plugin, emitVars, sqlVars, abuseVars, vtOutVars>>

Init == /\ plugin \in {"misp", "sql", "abuseipdb", "virustotal"}
        /\ EmitInit /\ SqlInit /\ AbuseInit /\ VtOutInit
        \* The plugins that are not looked at stay in one initial state.
        /\ plugin # "sql" => db = "mysql" /\ known
        /\ plugin # "abuseipdb" => tolerance = CHOOSE t \in Tolerances : TRUE
        \* One switch off at most, comment and collection together.
        /\ conf.comment = conf.collect
        /\ plugin = "virustotal" => Cardinality({switch \in DOMAIN conf \ {"collect"} : ~conf[switch]}) <= 1
        /\ plugin # "virustotal" => /\ \A switch \in DOMAIN conf : ~conf[switch]
                                    /\ began = {}

Next == /\ UNCHANGED plugin
        /\ \/ plugin = "misp" /\ EmitNext /\ UNCHANGED <<sqlVars, abuseVars, vtOutVars>>
           \/ plugin = "sql" /\ SqlNext /\ UNCHANGED <<emitVars, abuseVars, vtOutVars>>
           \/ plugin = "abuseipdb" /\ AbuseNext /\ UNCHANGED <<emitVars, sqlVars, vtOutVars>>
           \/ plugin = "virustotal" /\ VtOutNext /\ UNCHANGED <<emitVars, sqlVars, abuseVars>>

Spec == Init /\ [][Next]_outVars
=============================================================================
