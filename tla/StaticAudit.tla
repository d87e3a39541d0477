------------------------------ MODULE StaticAudit ------------------------------
(***************************************************************************)
(* The static audit of a local resource (src/desktop/src/shared/           *)
(* local-audit.ts): the rules and what each is declared to apply to, the   *)
(* detectors that look for them in the lines and the metadata of the       *)
(* resource, and the trust score and the status drawn from what they find. *)
(*                                                                         *)
(* A resource is one of the types, the lines of its text, and facts of its *)
(* metadata. A line is a fence, a quotation or plain text, has words that  *)
(* match patterns (the regular expressions are their names here), and may  *)
(* have invisible characters between them, which the audit takes out. The  *)
(* state machine is a user or a tool who goes on adding to the resource.   *)
(***************************************************************************)
EXTENDS Integers, Sequences, FiniteSets, FiniteSetsExt

CONSTANTS
    AuditedTypes,   \* the resource types under audit
    MaxParts        \* bound: lines and facts of a resource

VARIABLES audited

auditVars == <<audited>>

ALL_RESOURCE_TYPES ==
    {"AGENT_CONFIG", "RULE", "MEMORY", "SUBAGENT", "IGNORE_FILE", "SKILL", "MCP_SERVER",
     "PLUGIN", "HOOK", "CLI_COMMAND", "KIT", "PROJECT", "AGENT"}
ASSUME AuditAssumption == AuditedTypes \subseteq ALL_RESOURCE_TYPES /\ MaxParts \in Nat

COMMAND_RESOURCE_TYPES ==
    {"HOOK", "CLI_COMMAND", "MCP_SERVER", "PLUGIN", "SKILL", "KIT", "SUBAGENT"}
CLI_REFERENCE_RESOURCE_TYPES == {"CLI_COMMAND", "HOOK", "SKILL", "SUBAGENT", "KIT"}
CLI_RELATED_RESOURCE_TYPES == {"CLI_COMMAND", "HOOK", "SKILL", "KIT"}
STATIC_COMMAND_RESOURCE_TYPES == {"HOOK", "CLI_COMMAND", "MCP_SERVER"}

severityDeductions == [CRITICAL |-> 25, HIGH |-> 15, MEDIUM |-> 8, LOW |-> 3]

rule(severity, types) ==
    [severity |-> severity, deduction |-> severityDeductions[severity],
     applies |-> types, blocker |-> FALSE]

blockRule ==
    [severity |-> "CRITICAL", deduction |-> 100,
     applies |-> ALL_RESOURCE_TYPES, blocker |-> TRUE]

\* What each rule of the audit is declared to apply to.
auditRules ==
    [PROMPT_INJECTION |-> rule("CRITICAL", {"SKILL", "PLUGIN", "RULE", "MEMORY"}),
     RCE |-> rule("CRITICAL", COMMAND_RESOURCE_TYPES),
     CREDENTIAL_THEFT |-> rule("CRITICAL", ALL_RESOURCE_TYPES),
     PLAINTEXT_SECRETS |-> rule("CRITICAL", ALL_RESOURCE_TYPES),
     SAFETY_BYPASS |-> rule("CRITICAL", {"SKILL", "HOOK", "CLI_COMMAND", "KIT"}),
     DANGEROUS_COMMANDS |-> rule("HIGH", COMMAND_RESOURCE_TYPES),
     BROAD_PERMISSIONS |-> rule("HIGH", ALL_RESOURCE_TYPES),
     SUPPLY_CHAIN |-> rule("MEDIUM", {"SKILL", "MCP_SERVER", "PLUGIN", "KIT"}),
     UNKNOWN_SOURCE |-> rule("LOW", ALL_RESOURCE_TYPES),
     PERMISSION_COMBO_RISK |-> rule("HIGH", ALL_RESOURCE_TYPES),
     CLI_CREDENTIAL_STORAGE |-> rule("HIGH", {"CLI_COMMAND", "HOOK", "SKILL", "KIT"}),
     CLI_NETWORK_ACCESS |-> rule("MEDIUM", {"CLI_COMMAND", "HOOK", "SKILL", "KIT"}),
     CLI_BINARY_SOURCE |-> rule("HIGH", {"CLI_COMMAND", "KIT"}),
     CLI_PERMISSION_SCOPE |->
        rule("MEDIUM", {"CLI_COMMAND", "HOOK", "SKILL", "SUBAGENT", "KIT"}),
     CLI_AGGREGATE_RISK |-> rule("HIGH", {"CLI_COMMAND", "KIT"}),
     MCP_COMMAND_INJECTION |-> rule("CRITICAL", {"MCP_SERVER", "KIT"}),
     PLUGIN_SOURCE_TRUST |-> rule("HIGH", {"PLUGIN", "KIT"}),
     PLUGIN_LIFECYCLE_SCRIPTS |-> rule("HIGH", {"PLUGIN", "KIT"})]

enterpriseBlockRules ==
    [r \in {"PATH_TRAVERSAL", "HASH_MISMATCH", "MCP_REQUIRED_VARIABLE_MISSING",
            "MCP_SENSITIVE_VARIABLE_PLAINTEXT", "CONFIG_DRIFT", "AUTHORIZATION_SHRINK",
            "MISSING_ROLLBACK_SNAPSHOT"} |-> blockRule]

allAuditRuleDefinitions ==
    [id \in DOMAIN auditRules \cup DOMAIN enterpriseBlockRules |->
        IF id \in DOMAIN auditRules THEN auditRules[id] ELSE enterpriseBlockRules[id]]

-----------------------------------------------------------------------------
(* The resource.                                                           *)

Patterns ==
    {"promptInjection", "rce", "sensitivePath", "secret", "safetyBypass",
     "destructiveCommand", "broadPath", "supplyChain", "network", "insecureHttp", "env",
     "sensitiveEnv", "mcpInjection", "lifecycleScript"}

Lines ==
    [kind : {"fence"}, words : {{}}, invisible : {FALSE}]
      \cup [kind : {"quote", "text"}, words : {{p} : p \in Patterns} \cup {Patterns},
            invisible : BOOLEAN]

\* A fact stands for the metadata, or the permissions, that a test below asks for: an absolute
\* path with the intent to write it, a reference to a resource while some are known. Most
\* facts can only tell against a resource. Those of ClearingFacts answer one of the tests: a
\* source or a manager that is known, the resource referred to being among the known ones, a
\* root that covers the path, the required variable being set, a snapshot to go back to.
ClearingFacts ==
    {"source-named", "reference-known", "root-authorized", "variable-set", "rollback-snapshot"}

Facts ==
    ClearingFacts \cup
    {"network-permission", "elevated-permission", "broad-permission", "shell-permission",
     "source-unknown", "credential-store", "untrusted-binary", "reference-among-known",
     "missing-reference", "hash-mismatch", "untrusted-source", "lifecycle-scripts",
     "injected-command", "broad-filesystem", "unpinned-dependency", "parent-traversal",
     "absolute-write", "variable-required", "plaintext-variable", "drifted",
     "authorization-shrunk", "requires-rollback"}

NoText(type) == [type |-> type, lines |-> <<>>, facts |-> {}]

Parts(f) == Len(f.lines) + Cardinality(f.facts)

AuditTypeOK ==
    /\ audited.type \in ALL_RESOURCE_TYPES
    /\ \A i \in DOMAIN audited.lines : audited.lines[i] \in Lines
    /\ audited.facts \subseteq Facts /\ Parts(audited) <= MaxParts

-----------------------------------------------------------------------------
(* The detectors of the text.                                              *)

deobfuscate_AsWritten(lines) == lines \* mutant: the text is looked at as it was written

\* The characters nobody sees are taken out before anything is looked for.
deobfuscate(lines) == [i \in DOMAIN lines |-> [lines[i] EXCEPT !.invisible = FALSE]]

\* What a line matches: invisible characters part its words.
Shows(line) == IF line.invisible THEN {"invisibleCharacter"} ELSE line.words

descriptiveLineMask_AnyFence(lines) == \* mutant: a fence that is never closed hides all
    LET fences == {j \in DOMAIN lines : lines[j].kind = "fence"}
    IN  [i \in DOMAIN lines |-> lines[i].kind \in {"fence", "quote"} \/ Cardinality(fences) % 2 = 1]

\* Lines in a fenced block, its fences, and quotations only describe.
descriptiveLineMask(lines) ==
    [i \in DOMAIN lines |->
        LET fences == {j \in 1..(i - 1) : lines[j].kind = "fence"}
        IN  \/ lines[i].kind \in {"fence", "quote"}
            \/ Cardinality(fences) % 2 = 1]

Detector(id, patterns, types, skip) ==
    [rule |-> id, patterns |-> patterns, types |-> types, skipDescriptive |-> skip]

detectContentRules ==
    LET any == ALL_RESOURCE_TYPES
        cli == {"CLI_COMMAND", "HOOK", "SKILL", "KIT"}
    IN  {Detector("PROMPT_INJECTION", {"promptInjection", "invisibleCharacter"}, any, TRUE),
         Detector("RCE", {"rce"}, COMMAND_RESOURCE_TYPES, TRUE),
         Detector("CREDENTIAL_THEFT", {"sensitivePath"}, any, FALSE),
         Detector("PLAINTEXT_SECRETS", {"secret"}, any, TRUE),
         Detector("SAFETY_BYPASS", {"safetyBypass"}, any, TRUE),
         Detector("DANGEROUS_COMMANDS", {"destructiveCommand"}, COMMAND_RESOURCE_TYPES, TRUE),
         Detector("BROAD_PERMISSIONS", {"broadPath"}, any, FALSE),
         Detector("SUPPLY_CHAIN", {"supplyChain"}, any, TRUE),
         Detector("CLI_NETWORK_ACCESS", {"network"}, cli, FALSE),
         Detector("CLI_NETWORK_ACCESS", {"insecureHttp"}, cli \cup {"MCP_SERVER"}, FALSE),
         Detector("BROAD_PERMISSIONS", {"env"}, any, FALSE),
         Detector("CREDENTIAL_THEFT", {"sensitiveEnv"}, any, FALSE),
         Detector("MCP_COMMAND_INJECTION", {"mcpInjection"}, {"MCP_SERVER", "KIT"}, TRUE),
         Detector("PLUGIN_LIFECYCLE_SCRIPTS", {"lifecycleScript"}, {"PLUGIN", "KIT"}, FALSE)}

makeFinding(id, line, snippet) == [rule |-> id, line |-> line, snippet |-> snippet]

Line(d, i) == IF d.patterns = {"broadPath"} THEN i + 1 ELSE i

\* For broad paths the path is put before the text, which moves each line by one.
findInContent(f, d) ==
    LET text == deobfuscate(f.lines)
    IN  IF f.type \notin d.types THEN {}
        ELSE {makeFinding(d.rule, Line(d, i), text[i]) :
                i \in {j \in DOMAIN text :
                         /\ d.patterns \cap Shows(text[j]) # {}
                         /\ ~(d.skipDescriptive /\ descriptiveLineMask(text)[j])}}

-----------------------------------------------------------------------------
(* The detectors of the metadata.                                          *)

hasHashRisk(f) == "hash-mismatch" \in f.facts
isUnknownSource(f) ==
    /\ f.type \notin {"AGENT_CONFIG", "PROJECT"}
    /\ "source-named" \notin f.facts /\ "source-unknown" \in f.facts
hasCliCredentialStorage(f) ==
    f.type \in CLI_RELATED_RESOURCE_TYPES /\ "credential-store" \in f.facts
hasCliBinarySourceRisk(f) == f.type \in {"CLI_COMMAND", "KIT"} /\ "untrusted-binary" \in f.facts
hasCliReferenceScopeRisk(f) ==
    /\ f.type \in CLI_REFERENCE_RESOURCE_TYPES
    /\ \/ "reference-among-known" \in f.facts /\ "reference-known" \notin f.facts
       \/ "missing-reference" \in f.facts
hasStaticCommandDeclaration(f) ==
    f.type \in STATIC_COMMAND_RESOURCE_TYPES /\ "shell-permission" \in f.facts
Combines(f) == {"network-permission", "elevated-permission"} \subseteq f.facts
hasCliAggregateRisk(f) == f.type \in {"CLI_COMMAND", "KIT"} /\ Combines(f)

detectMetadataRules(f) ==
    LET found(id, test) == IF test THEN {makeFinding(id, 0, {})} ELSE {}
        has(fact) == fact \in f.facts
    IN  UNION {found("PERMISSION_COMBO_RISK", Combines(f)),
               found("BROAD_PERMISSIONS", has("broad-permission")),
               found("UNKNOWN_SOURCE", isUnknownSource(f)),
               found("CLI_CREDENTIAL_STORAGE", hasCliCredentialStorage(f)),
               found("CLI_BINARY_SOURCE", hasCliBinarySourceRisk(f)),
               found("CLI_PERMISSION_SCOPE",
                     hasCliReferenceScopeRisk(f) \/ hasStaticCommandDeclaration(f)),
               found("CLI_AGGREGATE_RISK", hasCliAggregateRisk(f)),
               found("PLUGIN_SOURCE_TRUST",
                     f.type = "PLUGIN" /\ (hasHashRisk(f) \/ has("untrusted-source"))),
               found("PLUGIN_LIFECYCLE_SCRIPTS", f.type = "PLUGIN" /\ has("lifecycle-scripts")),
               found("MCP_COMMAND_INJECTION",
                     f.type = "MCP_SERVER" /\ has("injected-command")),
               found("BROAD_PERMISSIONS", f.type = "MCP_SERVER" /\ has("broad-filesystem")),
               found("SUPPLY_CHAIN", has("unpinned-dependency"))}

hasPathTraversalOrAbsoluteWrite(f) ==
    \/ "parent-traversal" \in f.facts
    \/ "absolute-write" \in f.facts /\ "root-authorized" \notin f.facts
lacksVariable(f) == "variable-required" \in f.facts /\ "variable-set" \notin f.facts
needsSnapshot(f) == "requires-rollback" \in f.facts /\ "rollback-snapshot" \notin f.facts

detectBlockers(f) ==
    {makeFinding(id, 0, {}) : id \in
        {b \in DOMAIN enterpriseBlockRules :
            \/ b = "PATH_TRAVERSAL" /\ hasPathTraversalOrAbsoluteWrite(f)
            \/ b = "HASH_MISMATCH" /\ hasHashRisk(f)
            \/ b = "MCP_REQUIRED_VARIABLE_MISSING" /\ lacksVariable(f)
            \/ b = "MCP_SENSITIVE_VARIABLE_PLAINTEXT" /\ "plaintext-variable" \in f.facts
            \/ b = "CONFIG_DRIFT" /\ "drifted" \in f.facts
            \/ b = "AUTHORIZATION_SHRINK" /\ "authorization-shrunk" \in f.facts
            \/ b = "MISSING_ROLLBACK_SNAPSHOT" /\ needsSnapshot(f)}}

-----------------------------------------------------------------------------
(* The result. A set holds a finding once: that is dedupeFindings.         *)

auditStaticResource(f) ==
    (UNION {findInContent(f, d) : d \in detectContentRules})
      \cup detectMetadataRules(f) \cup detectBlockers(f)

RuleOf(finding) == allAuditRuleDefinitions[finding.rule]
RulesIn(findings) == {finding.rule : finding \in findings}
HasBlocker(findings) == \E finding \in findings : RuleOf(finding).blocker

Deductions(rules) == MapThenSumSet(LAMBDA id : allAuditRuleDefinitions[id].deduction, rules)

\* A rule takes its deduction once, and one point for each finding more.
calculateTrustScore(findings) ==
    LET first == Deductions(RulesIn(findings))
        again == Cardinality(findings) - Cardinality(RulesIn(findings))
    IN  IF HasBlocker(findings) THEN 0 ELSE Max({0, 100 - first - again})

mapTrustScoreToAuditStatus(score, blocker) ==
    CASE blocker \/ score <= 0 -> "SECURITY_RISK"
      [] ~blocker /\ score >= 80 -> "SAFE"
      [] ~blocker /\ score \in 60..79 -> "LOW_RISK"
      [] ~blocker /\ score \in 40..59 -> "NEEDS_REVIEW"
      [] OTHER -> "HIGH_RISK"

Status(f) ==
    LET findings == auditStaticResource(f)
    IN  mapTrustScoreToAuditStatus(calculateTrustScore(findings), HasBlocker(findings))

-----------------------------------------------------------------------------
AuditInit == audited \in {NoText(type) : type \in AuditedTypes}

AppendLine ==
    \E line \in Lines :
        /\ Parts(audited) < MaxParts
        /\ audited' = [audited EXCEPT !.lines = Append(@, line)]

AddFact ==
    \E fact \in Facts \ audited.facts :
        /\ Parts(audited) < MaxParts
        /\ audited' = [audited EXCEPT !.facts = @ \cup {fact}]

AuditNext == AppendLine \/ AddFact

AuditSpec == AuditInit /\ [][AuditNext]_auditVars

-----------------------------------------------------------------------------
(* The properties.                                                         *)

Severity(status) ==
    CASE status = "SAFE" -> 0 [] status = "LOW_RISK" -> 1 [] status = "NEEDS_REVIEW" -> 2
      [] status = "HIGH_RISK" -> 3 [] status = "SECURITY_RISK" -> 4

\* The rule that a fact is the answer to.
AnsweredBy(fact) ==
    CASE fact = "source-named" -> "UNKNOWN_SOURCE"
      [] fact = "reference-known" -> "CLI_PERMISSION_SCOPE"
      [] fact = "root-authorized" -> "PATH_TRAVERSAL"
      [] fact = "variable-set" -> "MCP_REQUIRED_VARIABLE_MISSING"
      [] fact = "rollback-snapshot" -> "MISSING_ROLLBACK_SNAPSHOT"
      [] OTHER -> "none"

\* What the audit found in a line, or in the metadata, it goes on finding as the resource
\* grows, and the status is no less severe: a fence that is never closed, a quotation or a
\* repeated finding must not hide, or pay for, what was found before. Only a fact that answers
\* a test of the metadata takes that one finding back.
FindingsAreOnlyAnswered ==
    [][audited' # audited =>
       LET before == auditStaticResource(audited)
           after == auditStaticResource(audited')
           added == audited'.facts \ audited.facts
       IN  /\ \A finding \in before \ after :
                  finding.line = 0 /\ finding.rule \in {AnsweredBy(fact) : fact \in added}
           /\ added \cap ClearingFacts = {} =>
                  Severity(Status(audited')) >= Severity(Status(audited))]_auditVars

\* What a rule is declared to apply to and what its detector looks at are two tables: words
\* of a pattern in a line that is neither fenced nor quoted are found in every type of
\* resource the rule is declared for, whatever invisible characters part them, and a critical
\* one is never called SAFE. It is said of the rules of the text and of the words that a line
\* can be read to have: the pattern of invisible characters itself matches nothing that is
\* left of a line.
DeclaredIsDetected ==
    \A d \in detectContentRules, i \in DOMAIN audited.lines :
        (/\ audited.type \in auditRules[d.rule].applies
         /\ audited.lines[i].kind = "text" /\ d.patterns \cap audited.lines[i].words # {}
         /\ \A j \in 1..(i - 1) : audited.lines[j].kind # "fence")
        => /\ d.rule \in RulesIn(auditStaticResource(audited))
           /\ auditRules[d.rule].severity = "CRITICAL" => Status(audited) # "SAFE"
=============================================================================
