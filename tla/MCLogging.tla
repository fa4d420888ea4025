----------------------------- MODULE MCLogging -----------------------------
EXTENDS Logging

MCFiles ==
    {[suffix |-> s, there |-> TRUE, log |-> TRUE, log_path |-> "p1",
      log_mode |-> m, log_level |-> l, log_max_size |-> "5",
      log_sync_interval |-> "500"] :
        s \in {"yaml", "xml"}, m \in {"FILE", "file", "missing"},
        l \in {"info", "none", "missing"}}
    \cup {[suffix |-> s, there |-> b, log |-> FALSE, log_path |-> "missing",
           log_mode |-> "BOTH", log_level |-> "INFO", log_max_size |-> "5",
           log_sync_interval |-> "500"] :
              s \in {"yaml", "xml", "txt"}, b \in BOOLEAN}
    \cup {[suffix |-> "xml", there |-> TRUE, log |-> TRUE, log_path |-> "p2",
           log_mode |-> "STDOUT", log_level |-> "WARN", log_max_size |-> n,
           log_sync_interval |-> "500"] : n \in {"5", "missing"}}
    \cup {[suffix |-> s, there |-> TRUE, log |-> TRUE, log_path |-> "p2",
           log_mode |-> "BOTH", log_level |-> "ERROR", log_max_size |-> "5",
           log_sync_interval |-> "missing"] : s \in {"yaml", "xml"}}
=============================================================================
