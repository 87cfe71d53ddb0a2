SPECIFICATION Spec
CONSTANTS
  jpg = jpg
  new = new
  csv = csv
  gpx = gpx
  other = other
  root = root
  folder = folder
  photo = photo
  Libraries = {jpg, new, csv, gpx, other}
  Plugins = {jpg, new, csv}
  Providers = {gpx}
  Title <- TitleOf
  Categories <- CategoriesOf
  Configurable = {new}
  Csv = csv
  Jpg = jpg
  MaxAnswers = 2
  Default <- DefaultLibraries
  Paths <- SomePaths
  MaxLoads = 4
  Items = {root, folder, photo}
  Directories = {folder}
  Writable = {folder}
  Parent <- ParentOf
  NoItem = none
INVARIANTS
  TypeOK
  ClickRunsEachLoad
  ToolBoxComplete
  ExportOfSelection
