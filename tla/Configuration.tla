---------------------------- MODULE Configuration ----------------------------
(* qgis_config.c: the dictionary config_opts and what config_load() reports  *)
(* about a new one. A section is a project; of its keys and values the model *)
(* keeps whether they are the same as before. A file that cannot be loaded   *)
(* leaves the dictionary alone and reports no section, like an unchanged one.*)
EXTENDS Database

CONSTANTS Setting,           \* contents a section may have
          NoSection,         \* the section is not in the file
          FirstConfig,       \* the dictionary loaded at startup
          MaxSectionChanges  \* bound: sections one reload adds, changes or deletes, each

ASSUME ConfigAssumption ==
    /\ NoSection \notin Setting
    /\ FirstConfig \in [Project -> Setting \cup {NoSection}]
    /\ MaxSectionChanges \in Nat

VARIABLES config,         \* config_opts, without its global keys
          sectionnew,     \* the arrays config_load() returned to main, as far as
          sectionchange,  \* main has not acted upon them yet
          sectiondelete

sectionVars == <<sectionnew, sectionchange, sectiondelete>>

Config == [Project -> Setting \cup {NoSection}]

ConfigTypeOK ==
    /\ config \in Config
    /\ sectionnew \subseteq Project
    /\ sectionchange \subseteq Project
    /\ sectiondelete \subseteq Project

Sections(c) == {pr \in Project : c[pr] # NoSection}

(* The first load reports every section as new. *)
ConfigInit ==
    /\ config = FirstConfig
    /\ sectionnew = Sections(FirstConfig)
    /\ sectionchange = {} /\ sectiondelete = {}

-----------------------------------------------------------------------------
(* config_has_changed: the three lists. Global keys are not compared.        *)

(* config_test_for_section_change *)
SectionChanged(new) == {pr \in Sections(config) \cap Sections(new) : config[pr] # new[pr]}
SectionDeleted(new) == Sections(config) \ Sections(new)
SectionNew(new) == Sections(new) \ Sections(config)

(* config_convert_list_to_array: its loop never advances the index, so the   *)
(* array holds the last section of the list. Which one that is depends on    *)
(* the order of the file.                                                    *)
config_convert_list_to_array(list) ==
    IF list = {} THEN {{}} ELSE {{pr} : pr \in list}

(* A later load replaces the dictionary and reports the sections that main   *)
(* is to act upon.                                                           *)
config_load(new) ==
    /\ config' = new
    /\ sectionnew' \in config_convert_list_to_array(SectionNew(new))
    /\ sectionchange' \in config_convert_list_to_array(SectionChanged(new))
    /\ sectiondelete' \in config_convert_list_to_array(SectionDeleted(new))

ListsDone == sectionnew = {} /\ sectionchange = {} /\ sectiondelete = {}

(* Files somebody may have written before the next reload. *)
ConfigFiles ==
    {new \in Config : /\ Cardinality(SectionNew(new)) <= MaxSectionChanges
                      /\ Cardinality(SectionChanged(new)) <= MaxSectionChanges
                      /\ Cardinality(SectionDeleted(new)) <= MaxSectionChanges}
=============================================================================
