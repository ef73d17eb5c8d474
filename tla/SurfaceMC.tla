------------------------------ MODULE SurfaceMC ------------------------------
(***************************************************************************)
(* Small instances of SurfaceCheck: each theme is one family of settings,  *)
(* and a behaviour keeps to its theme.                                     *)
(***************************************************************************)
EXTENDS SurfaceCheck, Sequences

Rule(tool, body, tail) == [tool |-> tool, body |-> body, tail |-> tail]
Item(at, slot, text) == [at |-> at, slot |-> slot, text |-> text, more |-> None]
In(f, items) == {<<f, i>> : i \in items}

Lists(rule, slot) == {Item(list, slot, rule) : list \in PermissionLists}

\* A whole tool in the three lists, and twice: bare and as Tool(*).
WholeTools ==
    In("settings", Lists(Rule("Bash", "", "bare"), "0"))
      \cup In("local", {Item("deny", "0", Rule("Bash", "", "bare")),
                        Item("allow", "1", Rule("Bash", "", "colon"))})

\* Bash specs: exact, a prefix in its two spellings, a stuck and an inner
\* wildcard, a compound command.
BashSpecs ==
    In("settings", {Item("allow", "0", Rule("Bash", "npm", tail)) :
                        tail \in {"exact", "colon", "space", "stuck", "inner"}}
                     \cup {Item("allow", "1", Rule("Bash", "npm", "space")),
                           Item("deny", "0", Rule("Bash", "a&&b", "exact"))})

\* Shapes that are ignored, uninterpreted or evaluated by list.
OtherTools ==
    In("settings",
       {Item("allow", "0", Rule(tool, "src", "exact")) : tool \in {"Write", "Edit"}}
         \cup {Item("allow", "0", Rule("", "", "bare")),
               Item("allow", "1", Rule("Read", "env", "lead")),
               Item("deny", "0", Rule("Read", "env", "lead")),
               Item("deny", "0", Rule("mcp__s", "", "exact"))})

Hook(slot, event, text, kept, rest) ==
    [at |-> "hook", slot |-> slot, text |-> text,
     more |-> [event |-> event, kept |-> kept, rest |-> rest]]

\* Hooks by their command: another one, a redacted one, at another index, of
\* another event, in another file.
Hooks ==
    In("settings", {Hook("Stop/0", "Stop", text, "", "") : text \in {"lint", "token=A", "token=B"}}
                     \cup {Hook("Stop/1", "Stop", "lint", "", ""),
                           Hook("Start/0", "Start", "lint", "", "")})
      \cup In("local", {Hook("Stop/0", "Stop", "lint", "", "")})

\* One command with what else is kept of a hook and with a member that is dropped.
HookMembers ==
    In("settings", {Hook("Stop/0", "Stop", "lint", kept, rest) :
                        kept \in {"", "timeout"}, rest \in {"shell", "token=A"}}
                     \cup {Hook("Stop/1", "Stop", text, "", "") : text \in {"lint", Junk}})

Server(slot, scheme, target, args, env, headers, extra) ==
    [at |-> "mcp", slot |-> slot, text |-> [scheme |-> scheme, target |-> target],
     more |-> [args |-> args, env |-> env, headers |-> headers, extra |-> extra]]

Servers ==
    In("mcp", {Server("s", "stdio", "run", "v1", {}, {}, None),
               Server("s", "stdio", "run", "token=A", {}, {}, None),
               Server("s", "stdio", "run", "token=B", {}, {}, None),
               Server("s", "stdio", "run", Junk, {}, {}, None),
               Server("s", "stdio", "$RUN", "v1", {}, {}, None),
               Server("s", "http", "far", "v1", {}, {}, None),
               Server("s", "ftp", "far", "v1", {}, {}, None)})

ServerValues ==
    In("mcp", {Server("s", "stdio", "run", "v1", {<<n, v>>}, {}, None) :
                   n \in {"PATH", "LANG"}, v \in {"a", "b"}}
                \cup {Server("s", "stdio", "run", "v1", {<<"LANG", "a">>}, {<<"Auth", v>>}, None) :
                          v \in {"token=A", "token=B"}}
                \cup {Server("s", "stdio", "run", "v1", {}, {}, "cwd")})

Environment ==
    In("settings", {Item("env", n, v) : n \in {"PATH", "LANG"}, v \in {"token=A", "token=B"}})
      \cup In("local", {Item("env", "PATH", "token=A"), Item("env", "LANG", Junk)})

Modes ==
    In("settings", {Item("defaultMode", "defaultMode", m) :
                        m \in {"plan", "auto", "dontAsk", "yolo", Junk}})

Directories ==
    In("local", {Item("dir", "0", "../lib"), Item("dir", "1", "../lib"),
                 Item("dir", "0", "../doc")})

\* A flag or a mode in both files that can hold it.
Flags ==
    UNION {In(f, {Item("flag", "disableAllHooks", v) : v \in {"true", "false"}})
             : f \in {"settings", "local"}}
      \cup In("settings", {Item("flag", "disableAllHooks", "1")})

ModesInBothFiles ==
    UNION {In(f, {Item("defaultMode", "defaultMode", m) : m \in {"plan", "auto"}})
             : f \in {"settings", "local"}}

ServerFlags ==
    UNION {In(f, {Item("flag", "enableAllProjectMcpServers", v) : v \in {"true", "false"}})
             : f \in {"settings", "local"}}

Others ==
    In("settings", {Item("flag", "enabledPlugins", "p"),
                    Item("sandbox", "enabled", "true"),
                    Item("unknown", "x", "token=A"), Item("unknown", "x", "token=B")})
      \cup In("local", {Item("helper", "apiKeyHelper", h) : h \in {"token=A", "token=B"}})

Rewritten ==
    In("settings", {Item("deny", slot, Rule("Bash", body, "exact")) :
                        slot \in {"0", "1"}, body \in {"token=A", "token=B"}}
                     \cup {Item("deny", "0", Rule("Bash", "token=A", tail)) :
                               tail \in {"colon", "space"}})

AllThemes ==
    {WholeTools, BashSpecs, OtherTools, Hooks, HookMembers, Servers, ServerValues, Environment,
     Modes, Directories, Flags, ModesInBothFiles, ServerFlags, Others, Rewritten}
=============================================================================
